---- MODULE Spec2Model ----
(***************************************************************************)
(* A session of the Plugwise Smile P1 client (class SmileP1): the session  *)
(* fields, the public operations as asynchronous calls that suspend at     *)
(* every transport call, and the device as a nondeterministic responder.   *)
(* The cookie field is written by _makeRequest and never read; it is left  *)
(* out.                                                                    *)
(***************************************************************************)
EXTENDS Integers, Sequences, FiniteSets, TLC

(* ---------------- JavaScript values ---------------- *)
Undef == [t |-> "undefined"]
Str(s) == [t |-> "string", v |-> s]
Num(n) == [t |-> "number", v |-> n]
Bool(b) == [t |-> "boolean", v |-> b]
Err(m) == [t |-> "error", v |-> m]
Obj(k) == [t |-> "object", v |-> k]
\* a response body (text), held as the document it carries
Body(d) == [t |-> "body", v |-> d]
TypeOf(x) == x.t
Truthy(x) ==
    CASE x.t = "undefined" -> FALSE
      [] x.t = "string" -> x.v # <<>>
      [] x.t = "number" -> x.v # 0
      [] x.t = "boolean" -> x.v
      [] OTHER -> TRUE

(* ---------------- constants of the module ---------------- *)
\* strings are sequences of one-character strings
defaultHost == <<"c","o","n","n","e","c","t",".","p","l","u","g","w","i","s","e",".","n","e","t">>
defaultPort == 80
modulesPath == "/core/modules"
objectsPath == "/core/direct_objects"
logsPath == "/core/locations/logs"
statusPath == "/system/status/xml"
gatewayPath == "/core/domain_objects;class=Gateway"
discoveryPath == "/proxy/auth/announce"
networkScanPath == "/core/gateways/network;@scan"
interfaceStatusPath == "/core/gateways/network"
rebootPath == "/core/gateways;@reboot"

\* error messages thrown by the module
ErrNotLoggedIn == Err("Not logged in")
Err401 == Err("401 Unauthorized (wrong smileId or wrong IP)")
ErrStatus == Err("HTTP request Failed. Status Code")
ErrContentType == Err("Invalid content-type. Expected text/xml or text/html")
ErrTerminated == Err("The connection was terminated while the message was still being sent")
ErrTransport == Err("transport error")
ErrRebootFailed == Err("reboot failed")
ErrDiscoveryId == Err("Discovery failed possibly due to incorrect ID.")
ErrDiscoveryStatus == Err("Discovery Failed. Status Code")
ErrDiscoveryType == Err("Discovery failed. Expected application/json")
ErrParse == Err("parse error")

(* ---------------- the device and the rendezvous host ---------------- *)
Digits == <<"0","1","2","3","4","5","6","7","8","9">>
\* firmware strings a device can report
Fw2 == <<"2",".","1",".","1","3">>
Fw3 == <<"3",".","3",".","6">>
Fw10 == <<"1","0",".","2",".","0">>
Fw9 == <<"9",".","0">>
FwEmpty == <<>>
\* the one-digit firmware strings reported run from "0" to this major version
MaxFwMajor == 3
FwMajors == {<<"0">>, <<"1">>, <<"2">>, <<"3">>, <<"4">>, <<"5">>, <<"6">>, <<"7">>, <<"8">>, <<"9">>}
FwStrings ==
    {Fw2, Fw3, Fw9, Fw10, FwEmpty}
    \cup {f \in FwMajors : \E d \in 0..MaxFwMajor : d < 10 /\ f[1] = Digits[d + 1]}

ExplicitHost == <<"1","9","2",".","1","6","8",".","1",".","5","0">>
LanIp == <<"1","0",".","0",".","0",".","7">>

\* response documents: which tags a body carries
\*   firmware_version / version : the captured text of the tag, Undef when absent
\*   data : the body parses into what the data operations read
\*   ip   : the lan_ip/wifi_ip of a discovery JSON body, Undef when absent
\*   json : the body is valid JSON
Doc(fv, v, d, ip, j) ==
    [firmware_version |-> fv, version |-> v, data |-> d, ip |-> ip, json |-> j]
EmptyDoc == Doc(Undef, Undef, FALSE, Undef, FALSE)
\* the documents the device serves and those the rendezvous host serves
DeviceBodies ==
    {EmptyDoc}
    \cup {Doc(Str(f), Undef, TRUE, Undef, FALSE) : f \in FwStrings}
    \cup {Doc(Undef, Str(Fw2), TRUE, Undef, FALSE)}
RendezvousBodies ==
    {EmptyDoc, Doc(Undef, Undef, FALSE, Str(LanIp), TRUE), Doc(Undef, Undef, FALSE, Undef, TRUE)}

ErrorStatuses == {401, 404, 500}
ContentTypes == {"text/xml", "application/json", "none"}

\* what a transport call can come back with: a network error or timeout, a
\* reply cut short, a reply with an error status, or a 200 reply.
\* vendor: the response headers contain 'Plugwise'
NoReply == [kind |-> "error", statusCode |-> 0, contentType |-> "none", body |-> EmptyDoc, vendor |-> FALSE]
Reply(st, ct, b, v) ==
    [kind |-> "reply", statusCode |-> st, contentType |-> ct, body |-> b, vendor |-> v]
RepliesWith(bodies, vendors) ==
    {NoReply}
    \cup {[Reply(200, "text/xml", EmptyDoc, FALSE) EXCEPT !.kind = "incomplete"]}
    \cup {Reply(st, ct, EmptyDoc, v) : st \in ErrorStatuses, ct \in {"text/xml", "none"}, v \in vendors}
    \cup {Reply(200, ct, b, v) : ct \in ContentTypes, b \in bodies, v \in vendors}
\* the headers are read by reboot only, the JSON body by discover only
Responses(path) ==
    IF path = discoveryPath THEN RepliesWith(RendezvousBodies, {FALSE})
    ELSE IF path = rebootPath THEN RepliesWith(DeviceBodies, BOOLEAN)
    ELSE RepliesWith(DeviceBodies, {FALSE})
\* the answers drawn on where the operations of two callers overlap: no
\* answer, a 401, and 200 text answers of a device of either generation
FewReplies(bodies, vendors) ==
    {NoReply}
    \cup {Reply(401, "text/xml", EmptyDoc, v) : v \in vendors}
    \cup {Reply(200, "text/xml", b, v) : b \in bodies, v \in vendors}
FewDeviceBodies ==
    {EmptyDoc, Doc(Str(Fw3), Undef, TRUE, Undef, FALSE), Doc(Undef, Str(Fw2), TRUE, Undef, FALSE)}
FewResponses(path) ==
    IF path = discoveryPath
    THEN {NoReply, Reply(200, "application/json", Doc(Undef, Undef, FALSE, Str(LanIp), TRUE), FALSE)}
    ELSE IF path = rebootPath THEN FewReplies({EmptyDoc}, BOOLEAN)
    ELSE FewReplies(FewDeviceBodies, {FALSE})

(* ---------------- pure helpers ---------------- *)
\* ToNumber of a one-character string (or of undefined): NaN for a non-digit
NaN == [nan |-> TRUE, v |-> 0]
Number(n) == [nan |-> FALSE, v |-> n]
ToNumber(ch) ==
    IF \E i \in 1..10 : Digits[i] = ch
    THEN Number((CHOOSE i \in 1..10 : Digits[i] = ch) - 1)
    ELSE IF ch = " " THEN Number(0) ELSE NaN
\* str[0]: the first character, undefined for the empty string
CharAt0(s) == IF Len(s) = 0 THEN "undefined" ELSE s[1]
\* the relational operators of a string character with a number literal:
\* false whenever an operand is NaN
JsLe(a, b) == ~a.nan /\ ~b.nan /\ a.v <= b.v
JsGe(a, b) == ~a.nan /\ ~b.nan /\ a.v >= b.v

\* faulty variant of RegexFwLevel3: the newer-generation probe looks for the older tag
RegexFwLevel3OlderTag(body) == body.version
\* regexFwLevel3.exec(body) / regexFwLevel2.exec(body): the capture, Undef for null
RegexFwLevel3(body) == body.firmware_version
RegexFwLevel2(body) == body.version

\* /^text\//.test(contentType)
IsText(ct) == ct = "text/xml"
\* /^application\/json/.test(contentType)
IsJson(ct) == ct = "application/json"

(* ---------------- the session ---------------- *)
VARIABLES
    options,        \* the meterMethod option the session was constructed with
    loggedIn, host, firmwareLevel, meterMethod, lastResponse,   \* this.*
    calls,          \* per caller: the operation in flight and where it is suspended
    concurrent,     \* whether callers overlap their operations on the session
    rebooted,       \* (history) the accepted reboot that no later login has followed yet
    input, output   \* the argument and the result of a function examined on its own

vars == <<options, loggedIn, host, firmwareLevel, meterMethod, lastResponse, calls, concurrent,
          rebooted, input, output>>

Callers == {"c1", "c2"}
\* when operations do not overlap, one caller makes all the calls
FirstCaller == "c1"

Ops == {"login", "discover", "getFirmwareLevel", "getStatus", "getInterfaceStatus",
        "getWifiScan", "getMeterReadings", "getLogs", "reboot"}

\* a caller with no operation in flight
\*   reqs : the transport calls the operation has issued, in order (paths)
\*   res, val : how the returned promise settled and with what
\*   host0 : (login) the host after the passed options were applied
\*   got : the response to the last transport call that came back
Idle == [op |-> "none", pc |-> "idle", reqs |-> <<>>, res |-> "none", val |-> Undef,
         host0 |-> Undef, got |-> NoReply]

\* option sets the callers draw from
HostOptions == {Undef, Str(ExplicitHost), Str(defaultHost)}
CtorHostOptions == {Undef, Str(ExplicitHost)}
MeterMethodOptions == {Undef, Num(1), Num(2)}
SessionOptions == [host : CtorHostOptions, meterMethod : MeterMethodOptions]

\* the session as one value
Session ==
    [loggedIn |-> loggedIn, host |-> host, firmwareLevel |-> firmwareLevel,
     meterMethod |-> meterMethod, lastResponse |-> lastResponse]

\* new SmileP1(opts)
constructor(opts) ==
    [loggedIn |-> TRUE,
     host |-> IF Truthy(opts.host) THEN opts.host ELSE Str(defaultHost),
     firmwareLevel |-> Undef,
     meterMethod |-> opts.meterMethod,
     lastResponse |-> Undef]

\* the history of reboots:
\*   on    : a reboot was accepted and no login called after it has resolved since
\*   stale : the callers whose login was in flight when that reboot was accepted
NoReboot == [on |-> FALSE, stale |-> {}]
\* the history after caller c's operation took a step that left its call record k
Remember(c, k) ==
    IF k.pc # "done" THEN rebooted
    ELSE IF k.op = "reboot" /\ k.res = "resolved"
    THEN [on |-> TRUE,
          stale |-> {d \in Callers \ {c} : calls[d].op = "login" /\ calls[d].pc \notin {"idle", "done"}}]
    ELSE IF k.op = "login" /\ k.res = "resolved" /\ c \notin rebooted.stale
    THEN NoReboot
    ELSE [rebooted EXCEPT !.stale = @ \ {c}]

\* a session just constructed with opts, no operation called yet
NewSession(opts, conc) ==
    LET s == constructor(opts) IN
    /\ options = [meterMethod |-> opts.meterMethod]
    /\ loggedIn = s.loggedIn
    /\ host = s.host
    /\ firmwareLevel = s.firmwareLevel
    /\ meterMethod = s.meterMethod
    /\ lastResponse = s.lastResponse
    /\ calls = [c \in Callers |-> Idle]
    /\ concurrent = conc
    /\ rebooted = NoReboot

InitWith(conc) ==
    /\ \E opts \in SessionOptions : NewSession(opts, conc)
    /\ input = Undef
    /\ output = Undef

Init == InitWith(FALSE)
InitConcurrent == InitWith(TRUE)

\* the step of caller c ends with session s and call record k
Becomes(c, r) ==
    /\ loggedIn' = r.s.loggedIn
    /\ host' = r.s.host
    /\ firmwareLevel' = r.s.firmwareLevel
    /\ meterMethod' = r.s.meterMethod
    /\ lastResponse' = r.s.lastResponse
    /\ calls' = [calls EXCEPT ![c] = r.k]
    /\ rebooted' = Remember(c, r.k)
    /\ UNCHANGED <<options, concurrent, input, output>>

CanCall(c) ==
    /\ calls[c].pc = "idle"
    /\ concurrent \/ c = FirstCaller

Called(op) == [Idle EXCEPT !.op = op, !.pc = "called"]
\* the transport call the operation of caller c waits for comes back with resp
Got(c, resp) == [calls[c] EXCEPT !.got = resp]
LastPath(k) == k.reqs[Len(k.reqs)]

(* ---------------- promise settlement ---------------- *)
Resolve(s, k, v) == [s |-> s, k |-> [k EXCEPT !.pc = "done", !.res = "resolved", !.val = v]]
Reject(s, k, e) == [s |-> s, k |-> [k EXCEPT !.pc = "done", !.res = "rejected", !.val = e]]
(* ---------------- transport ---------------- *)
\* _makeHttpRequest / _makeHttpsRequest: the promise of one transport call
\* settling with response resp
makeHttpRequest(s, resp) ==
    CASE resp.kind = "error" ->
            [ok |-> FALSE, s |-> [s EXCEPT !.lastResponse = ErrTransport], val |-> ErrTransport]
      [] resp.kind = "incomplete" ->
            [ok |-> FALSE, s |-> [s EXCEPT !.lastResponse = Body(resp.body)], val |-> ErrTerminated]
      [] resp.kind = "reply" ->
            [ok |-> TRUE, s |-> [s EXCEPT !.lastResponse = Body(resp.body)], val |-> Body(resp.body)]

\* _makeRequest, before the transport call: the login guard
makeRequestGuard(li, force) == ~li /\ ~force

\* _makeRequest up to its await: reject, or issue the transport call and
\* suspend the operation at pc
makeRequestStart(s, k, path, force, pc) ==
    IF makeRequestGuard(s.loggedIn, force)
    THEN Reject(s, k, ErrNotLoggedIn)
    ELSE [s |-> s, k |-> [k EXCEPT !.pc = pc, !.reqs = Append(@, path)]]

\* faulty variant of makeRequestResult: the content type is tested before the status
makeRequestResultTypeFirst(s, resp) ==
    LET r == makeHttpRequest(s, resp) IN
    IF ~r.ok THEN r
    ELSE IF ~IsText(resp.contentType)
    THEN [ok |-> FALSE, s |-> r.s, val |-> ErrContentType]
    ELSE IF resp.statusCode = 401
    THEN [ok |-> FALSE, s |-> [r.s EXCEPT !.lastResponse = Num(401)], val |-> Err401]
    ELSE IF resp.statusCode # 200
    THEN [ok |-> FALSE, s |-> [r.s EXCEPT !.lastResponse = Num(resp.statusCode)], val |-> ErrStatus]
    ELSE r
\* _makeRequest after its await: classify the response
makeRequestResult(s, resp) ==
    LET r == makeHttpRequest(s, resp) IN
    IF ~r.ok THEN r
    ELSE IF resp.statusCode = 401
    THEN [ok |-> FALSE, s |-> [r.s EXCEPT !.lastResponse = Num(401)], val |-> Err401]
    ELSE IF resp.statusCode # 200
    THEN [ok |-> FALSE, s |-> [r.s EXCEPT !.lastResponse = Num(resp.statusCode)], val |-> ErrStatus]
    ELSE IF ~IsText(resp.contentType)
    THEN [ok |-> FALSE, s |-> r.s, val |-> ErrContentType]
    ELSE r

(* ---------------- operations, as continuations ---------------- *)
\* faulty variant of loginCatch: the catch block forgets to clear the flag
loginCatchKeepsFlag(s, k, e) == Reject(s, k, e)
\* login's catch block
loginCatch(s, k, e) == Reject([s EXCEPT !.loggedIn = FALSE], k, e)

\* faulty variant of Throw: every operation's failure logs the session out
ThrowLogsOut(s, k, e) == Reject([s EXCEPT !.loggedIn = FALSE], k, e)
\* an error thrown inside operation k.op reaches that operation's catch block
Throw(s, k, e) == IF k.op = "login" THEN loginCatch(s, k, e) ELSE Reject(s, k, e)

\* faulty variant of needsDiscovery: the rendezvous host is taken for a device address
needsDiscoveryUnsetOnly(h) == ~Truthy(h)
\* login: whether the host is resolved by discovery
needsDiscovery(h) == ~Truthy(h) \/ h = Str(defaultHost)

\* login, once getFirmwareLevel has resolved
loginDone(s, k) == Resolve([s EXCEPT !.loggedIn = TRUE], k, Bool(TRUE))

\* getStatus: whether the device is taken for the newer generation
isStatusV3(fw) == JsGe(ToNumber(CharAt0(fw.v)), Number(3))

\* faulty variant of getMeterMethod: a second digit makes the major version two-digit
getMeterMethodMajor(fw, mm) ==
    IF TypeOf(fw) = "string"
    THEN IF /\ JsLe(ToNumber(CharAt0(fw.v)), Number(2))
            /\ ~(Len(fw.v) >= 2 /\ \E i \in 1..10 : Digits[i] = fw.v[2])
         THEN Num(1) ELSE Num(2)
    ELSE mm
\* faulty variant of getMeterMethod: the comparison is strict
getMeterMethodStrict(fw, mm) ==
    IF TypeOf(fw) = "string"
    THEN IF ~JsGe(ToNumber(CharAt0(fw.v)), Number(2)) /\ ~ToNumber(CharAt0(fw.v)).nan THEN Num(1) ELSE Num(2)
    ELSE mm
\* _getMeterMethod, after getFirmwareLevel: the new meterMethod
getMeterMethod(fw, mm) ==
    IF TypeOf(fw) = "string"
    THEN IF JsLe(ToNumber(CharAt0(fw.v)), Number(2)) THEN Num(1) ELSE Num(2)
    ELSE mm

\* faulty variant of needsMeterMethod: detection runs on every call
needsMeterMethodAlways(mm) == TRUE
\* getMeterReadings: whether the strategy must be determined first
needsMeterMethod(mm) == ~Truthy(mm)

\* faulty variant of readingsDispatch: strategy A is the default
readingsDispatchDefaultA(s, k) ==
    IF s.meterMethod = Num(2)
    THEN makeRequestStart(s, k, objectsPath, FALSE, "readings2")
    ELSE makeRequestStart(s, k, modulesPath, FALSE, "readings1")
\* getMeterReadings: dispatch to one of the two extractors
readingsDispatch(s, k) ==
    IF s.meterMethod = Num(1)
    THEN makeRequestStart(s, k, modulesPath, FALSE, "readings1")
    ELSE makeRequestStart(s, k, objectsPath, FALSE, "readings2")

\* getFirmwareLevel up to its first await
firmwareLevelStart(s, k) == makeRequestStart(s, k, gatewayPath, TRUE, "fw3")

\* what follows a resolved getFirmwareLevel in each operation that calls it
firmwareLevelDone(s, k) ==
    CASE k.op = "login" -> loginDone(s, k)
      [] k.op = "getFirmwareLevel" -> Resolve(s, k, s.firmwareLevel)
      [] k.op = "getMeterReadings" ->
            readingsDispatch([s EXCEPT !.meterMethod = getMeterMethod(s.firmwareLevel, s.meterMethod)], k)

\* getFirmwareLevel after the probe of the gateway path
firmwareLevelFw3(s, k, resp) ==
    LET r == makeRequestResult(s, resp) IN
    IF ~r.ok THEN Throw(r.s, k, r.val)
    ELSE LET fw == RegexFwLevel3(resp.body) IN
         IF fw # Undef
         THEN firmwareLevelDone([r.s EXCEPT !.firmwareLevel = fw], k)
         ELSE makeRequestStart(r.s, k, statusPath, TRUE, "fw2")

\* faulty variant of firmwareLevelFw2: a run without a tag resets firmwareLevel
firmwareLevelFw2Resets(s, k, resp) ==
    LET r == makeRequestResult(s, resp) IN
    IF ~r.ok THEN Throw(r.s, k, r.val)
    ELSE LET fw2 == RegexFwLevel2(resp.body) IN
         firmwareLevelDone([r.s EXCEPT !.firmwareLevel = fw2], k)
\* getFirmwareLevel after the probe of the status path
firmwareLevelFw2(s, k, resp) ==
    LET r == makeRequestResult(s, resp) IN
    IF ~r.ok THEN Throw(r.s, k, r.val)
    ELSE LET fw2 == RegexFwLevel2(resp.body) IN
         IF fw2 # Undef
         THEN firmwareLevelDone([r.s EXCEPT !.firmwareLevel = fw2], k)
         ELSE firmwareLevelDone(r.s, k)

\* faulty variant of discoverDone: the generic status test comes before the 404 test
discoverDoneStatusFirst(s, k, resp) ==
    LET r == makeHttpRequest(s, resp) IN
    IF ~r.ok THEN Throw(r.s, k, r.val)
    ELSE IF resp.statusCode # 200
    THEN Throw([r.s EXCEPT !.lastResponse = Num(resp.statusCode)], k, ErrDiscoveryStatus)
    ELSE IF resp.statusCode = 404 THEN Throw(r.s, k, ErrDiscoveryId)
    ELSE IF ~IsJson(resp.contentType) THEN Throw(r.s, k, ErrDiscoveryType)
    ELSE IF ~resp.body.json THEN Throw(r.s, k, ErrParse)
    ELSE LET s2 == [r.s EXCEPT !.host = resp.body.ip] IN
         IF k.op = "login" THEN firmwareLevelStart(s2, k) ELSE Resolve(s2, k, Obj("info"))
\* discover after its transport call
discoverDone(s, k, resp) ==
    LET r == makeHttpRequest(s, resp) IN
    IF ~r.ok THEN Throw(r.s, k, r.val)
    ELSE IF resp.statusCode = 404 THEN Throw(r.s, k, ErrDiscoveryId)
    ELSE IF resp.statusCode # 200
    THEN Throw([r.s EXCEPT !.lastResponse = Num(resp.statusCode)], k, ErrDiscoveryStatus)
    ELSE IF ~IsJson(resp.contentType) THEN Throw(r.s, k, ErrDiscoveryType)
    ELSE IF ~resp.body.json THEN Throw(r.s, k, ErrParse)
    ELSE LET s2 == [r.s EXCEPT !.host = resp.body.ip] IN
         IF k.op = "login" THEN firmwareLevelStart(s2, k) ELSE Resolve(s2, k, Obj("info"))

\* faulty variant of rebootDone: acceptance read from the status code, not the headers
rebootDoneByStatus(s, k, resp) ==
    LET r == makeHttpRequest(s, resp) IN
    IF ~r.ok THEN Reject(r.s, k, r.val)
    ELSE IF resp.statusCode # 200 THEN Reject(r.s, k, ErrRebootFailed)
    ELSE Resolve([r.s EXCEPT !.loggedIn = FALSE], k, Bool(TRUE))
\* reboot after its transport call
rebootDone(s, k, resp) ==
    LET r == makeHttpRequest(s, resp) IN
    IF ~r.ok THEN Reject(r.s, k, r.val)
    ELSE IF ~resp.vendor THEN Reject(r.s, k, ErrRebootFailed)
    ELSE Resolve([r.s EXCEPT !.loggedIn = FALSE], k, Bool(TRUE))

\* faulty variant of dataDone: a failed request is issued once more
dataDoneRetries(s, k, resp, name) ==
    LET r == makeRequestResult(s, resp) IN
    IF ~r.ok
    THEN IF Len(k.reqs) < 2
         THEN [s |-> r.s, k |-> [k EXCEPT !.reqs = Append(@, LastPath(k))]]
         ELSE Throw(r.s, k, r.val)
    ELSE IF ~resp.body.data THEN Throw(r.s, k, ErrParse)
    ELSE Resolve(r.s, k, Obj(name))
\* a single-request data operation after its request: parse and return
dataDone(s, k, resp, name) ==
    LET r == makeRequestResult(s, resp) IN
    IF ~r.ok THEN Throw(r.s, k, r.val)
    ELSE IF ~resp.body.data THEN Throw(r.s, k, ErrParse)
    ELSE Resolve(r.s, k, Obj(name))

(* ---------------- actions: an operation is called ---------------- *)
\* login(opts), up to its first await
login(c, opts) ==
    /\ CanCall(c)
    /\ LET s == [Session EXCEPT !.host = IF Truthy(opts.host) THEN opts.host ELSE host]
           k == [Called("login") EXCEPT !.host0 = s.host]
       IN  IF needsDiscovery(s.host)
           THEN Becomes(c, [s |-> s, k |-> [k EXCEPT !.pc = "discover", !.reqs = Append(@, discoveryPath)]])
           ELSE Becomes(c, firmwareLevelStart(s, k))

discover(c) ==
    /\ CanCall(c)
    /\ Becomes(c, [s |-> Session,
                   k |-> [Called("discover") EXCEPT !.pc = "discover", !.reqs = Append(@, discoveryPath)]])

getFirmwareLevel(c) ==
    /\ CanCall(c)
    /\ Becomes(c, firmwareLevelStart(Session, Called("getFirmwareLevel")))

getStatus(c) ==
    /\ CanCall(c)
    /\ LET k == Called("getStatus") IN
       IF TypeOf(firmwareLevel) = "string"
       THEN IF isStatusV3(firmwareLevel)
            THEN Becomes(c, makeRequestStart(Session, k, gatewayPath, TRUE, "statusV3"))
            ELSE Becomes(c, makeRequestStart(Session, k, statusPath, FALSE, "statusV2"))
       ELSE Becomes(c, Resolve(Session, k, Obj("{}")))

getInterfaceStatus(c) ==
    /\ CanCall(c)
    /\ Becomes(c, makeRequestStart(Session, Called("getInterfaceStatus"), interfaceStatusPath, FALSE, "interfaceStatus"))

getWifiScan(c) ==
    /\ CanCall(c)
    /\ Becomes(c, makeRequestStart(Session, Called("getWifiScan"), networkScanPath, FALSE, "wifiScan"))

getLogs(c) ==
    /\ CanCall(c)
    /\ Becomes(c, makeRequestStart(Session, Called("getLogs"), logsPath, FALSE, "logs"))

getMeterReadings(c) ==
    /\ CanCall(c)
    /\ LET k == Called("getMeterReadings") IN
       IF needsMeterMethod(meterMethod)
       THEN Becomes(c, firmwareLevelStart(Session, k))
       ELSE Becomes(c, readingsDispatch(Session, k))

reboot(c) ==
    /\ CanCall(c)
    /\ Becomes(c, [s |-> Session,
                   k |-> [Called("reboot") EXCEPT !.pc = "reboot", !.reqs = Append(@, rebootPath)]])

(* ---------------- actions: a transport call settles ---------------- *)
\* what the transport call to path can come back with
Answers(path) == IF concurrent THEN FewResponses(path) ELSE Responses(path)

discoverResponse(c) ==
    /\ calls[c].pc = "discover"
    /\ \E resp \in Answers(LastPath(calls[c])) : Becomes(c, discoverDone(Session, Got(c, resp), resp))

firmwareLevelFw3Response(c) ==
    /\ calls[c].pc = "fw3"
    /\ \E resp \in Answers(LastPath(calls[c])) : Becomes(c, firmwareLevelFw3(Session, Got(c, resp), resp))

firmwareLevelFw2Response(c) ==
    /\ calls[c].pc = "fw2"
    /\ \E resp \in Answers(LastPath(calls[c])) : Becomes(c, firmwareLevelFw2(Session, Got(c, resp), resp))

statusV2Response(c) ==
    /\ calls[c].pc = "statusV2"
    /\ \E resp \in Answers(LastPath(calls[c])) : Becomes(c, dataDone(Session, Got(c, resp), resp, "statusV2"))

statusV3Response(c) ==
    /\ calls[c].pc = "statusV3"
    /\ \E resp \in Answers(LastPath(calls[c])) : Becomes(c, dataDone(Session, Got(c, resp), resp, "statusV3"))

interfaceStatusResponse(c) ==
    /\ calls[c].pc = "interfaceStatus"
    /\ \E resp \in Answers(LastPath(calls[c])) : Becomes(c, dataDone(Session, Got(c, resp), resp, "interfaceStatus"))

wifiScanResponse(c) ==
    /\ calls[c].pc = "wifiScan"
    /\ \E resp \in Answers(LastPath(calls[c])) : Becomes(c, dataDone(Session, Got(c, resp), resp, "wifiScanInfo"))

logsResponse(c) ==
    /\ calls[c].pc = "logs"
    /\ \E resp \in Answers(LastPath(calls[c])) : Becomes(c, dataDone(Session, Got(c, resp), resp, "logs"))

meterReadings1Response(c) ==
    /\ calls[c].pc = "readings1"
    /\ \E resp \in Answers(LastPath(calls[c])) : Becomes(c, dataDone(Session, Got(c, resp), resp, "readings1"))

meterReadings2Response(c) ==
    /\ calls[c].pc = "readings2"
    /\ \E resp \in Answers(LastPath(calls[c])) : Becomes(c, dataDone(Session, Got(c, resp), resp, "readings2"))

rebootResponse(c) ==
    /\ calls[c].pc = "reboot"
    /\ \E resp \in Answers(LastPath(calls[c])) : Becomes(c, rebootDone(Session, Got(c, resp), resp))

\* the caller takes the settled promise and is free to call again
Return(c) ==
    /\ calls[c].pc = "done"
    /\ calls' = [calls EXCEPT ![c] = Idle]
    /\ UNCHANGED <<options, loggedIn, host, firmwareLevel, meterMethod, lastResponse, concurrent,
                   rebooted, input, output>>

Next ==
    \E c \in Callers :
        \/ \E opts \in [host : HostOptions] : login(c, opts)
        \/ discover(c)
        \/ getFirmwareLevel(c)
        \/ getStatus(c)
        \/ getInterfaceStatus(c)
        \/ getWifiScan(c)
        \/ getLogs(c)
        \/ getMeterReadings(c)
        \/ reboot(c)
        \/ discoverResponse(c)
        \/ firmwareLevelFw3Response(c)
        \/ firmwareLevelFw2Response(c)
        \/ statusV2Response(c)
        \/ statusV3Response(c)
        \/ interfaceStatusResponse(c)
        \/ wifiScanResponse(c)
        \/ logsResponse(c)
        \/ meterReadings1Response(c)
        \/ meterReadings2Response(c)
        \/ rebootResponse(c)
        \/ Return(c)

Spec == Init /\ [][Next]_vars

\* two callers overlap login, getFirmwareLevel, getStatus, getMeterReadings
\* and reboot on one session
NextConcurrent ==
    \E c \in Callers :
        \/ login(c, [host |-> Undef])
        \/ getFirmwareLevel(c)
        \/ getStatus(c)
        \/ getMeterReadings(c)
        \/ reboot(c)
        \/ discoverResponse(c)
        \/ firmwareLevelFw3Response(c)
        \/ firmwareLevelFw2Response(c)
        \/ statusV2Response(c)
        \/ statusV3Response(c)
        \/ meterReadings1Response(c)
        \/ meterReadings2Response(c)
        \/ rebootResponse(c)
        \/ Return(c)

SpecConcurrent == InitConcurrent /\ [][NextConcurrent]_vars

TypeOK ==
    /\ loggedIn \in BOOLEAN
    /\ meterMethod \in MeterMethodOptions
    /\ firmwareLevel \in {Undef} \cup {Str(f) : f \in FwStrings}
    /\ host \in {Undef, Str(ExplicitHost), Str(defaultHost), Str(LanIp)}
    /\ \A c \in Callers : calls[c].op \in Ops \cup {"none"}

(* ---------------- numbers of the meter readings ---------------- *)
\* a JavaScript number with a finite decimal expansion is m * 10^-e, held with
\* the smallest e; NotANumber is NaN
NotANumber == [t |-> "number", nan |-> TRUE, m |-> 0, e |-> 0]
RECURSIVE Dec(_, _)
Dec(m, e) ==
    IF e > 0 /\ m % 10 = 0 THEN Dec(m \div 10, e - 1)
    ELSE [t |-> "number", nan |-> FALSE, m |-> m, e |-> e]
RECURSIVE Pow10(_)
Pow10(k) == IF k = 0 THEN 1 ELSE 10 * Pow10(k - 1)
\* the mantissa of x at e decimals (e >= x.e)
Scaled(x, e) == x.m * Pow10(e - x.e)
MaxOf(a, b) == IF a >= b THEN a ELSE b

IsDigit(ch) == \E i \in 1..10 : Digits[i] = ch
DigitValue(ch) == (CHOOSE i \in 1..10 : Digits[i] = ch) - 1
\* the digits of s read as one integer, the decimal point skipped
RECURSIVE Mantissa(_, _)
Mantissa(s, acc) ==
    IF s = <<>> THEN acc
    ELSE IF Head(s) = "." THEN Mantissa(Tail(s), acc)
    ELSE Mantissa(Tail(s), 10 * acc + DigitValue(Head(s)))
\* the number of characters after the decimal point
RECURSIVE Decimals(_)
Decimals(s) ==
    IF s = <<>> THEN 0
    ELSE IF Head(s) = "." THEN Len(s) - 1
    ELSE Decimals(Tail(s))
\* Number(str) for a string of characters: '' is 0, an unsigned or negative
\* decimal literal is its value, anything else is NaN
NumberOfString(s) ==
    LET u == IF s # <<>> /\ Head(s) = "-" THEN Tail(s) ELSE s
        dots == Cardinality({i \in 1..Len(u) : u[i] = "."})
        literal == /\ \A i \in 1..Len(u) : IsDigit(u[i]) \/ u[i] = "."
                   /\ dots <= 1
                   /\ Len(u) > dots
    IN  IF s = <<>> THEN Dec(0, 0)
        ELSE IF ~literal THEN NotANumber
        ELSE IF u = s THEN Dec(Mantissa(u, 0), Decimals(u))
        ELSE Dec(0 - Mantissa(u, 0), Decimals(u))
\* ToNumber of a value: undefined is NaN
ToNum(x) ==
    CASE x.t = "number" -> x
      [] x.t = "string" -> NumberOfString(x.v)
      [] OTHER -> NotANumber

\* a + b, a - b, a / 1000 of numbers
Add(a, b) ==
    IF a.nan \/ b.nan THEN NotANumber
    ELSE LET e == MaxOf(a.e, b.e) IN Dec(Scaled(a, e) + Scaled(b, e), e)
Sub(a, b) ==
    IF a.nan \/ b.nan THEN NotANumber
    ELSE LET e == MaxOf(a.e, b.e) IN Dec(Scaled(a, e) - Scaled(b, e), e)
DivBy1000(a) == IF a.nan THEN NotANumber ELSE Dec(a.m, a.e + 3)
\* Math.round(10^k * a) / 10^k: halves go up
RoundTo(a, k) ==
    IF a.nan THEN NotANumber
    ELSE IF a.e <= k THEN a
    ELSE LET d == Pow10(a.e - k) IN Dec((a.m + d \div 2) \div d, k)
\* Math.round(100 * (a / b)) / 100 for a nonzero b
DivRound2(a, b) ==
    IF a.nan \/ b.nan THEN NotANumber
    ELSE LET e == MaxOf(a.e, b.e)
             n == 100 * Scaled(a, e)
             d == Scaled(b, e)
             num == IF d > 0 THEN n ELSE 0 - n
             den == IF d > 0 THEN d ELSE 0 - d
         IN  Dec((2 * num + den) \div (2 * den), 2)
\* a + b of two values: a sum of numbers, a concatenation as soon as one is a string
Plus(a, b) ==
    IF a.t = "number" /\ b.t = "number" THEN Add(a, b)
    ELSE IF a.t = "string" \/ b.t = "string" THEN
        Str((IF a.t = "string" THEN a.v ELSE <<"#">>) \o (IF b.t = "string" THEN b.v ELSE <<"#">>))
    ELSE NotANumber
\* !x of a value
Falsy(x) ==
    CASE x.t = "number" -> x.nan \/ x.m = 0
      [] x.t = "undefined" -> TRUE
      [] x.t = "string" -> x.v = <<>>
      [] OTHER -> FALSE

(* ---------------- the meter readings ---------------- *)
ErrMeterInfo == Err("Error parsing meter info")
ErrTypeError == Err("TypeError")

\* date strings the device writes, and what Date.parse makes of them
DatePower == <<"2","0","1","9","-","0","2","-","0","3">>
DateGas == <<"2","0","1","9","-","0","2","-","0","4">>
DateZero == <<"0">>
DateInvalid == <<"x">>
\* Date.parse(x) / 1000: seconds since the epoch, NaN for a string that is not a
\* date; '0' is read as the year 2000 (on a host whose clock is UTC)
DateSeconds(x) ==
    IF x.t # "string" THEN NotANumber
    ELSE IF x.v = DatePower THEN Dec(1549152000, 0)
    ELSE IF x.v = DateGas THEN Dec(1549238400, 0)
    ELSE IF x.v = DateZero THEN Dec(946684800, 0)
    ELSE NotANumber

\* a readings object: a function from the keys it has to their values
NoReadings == [k \in {} |-> Undef]
\* readings.k, undefined for a key the object does not have
Field(r, k) == IF k \in DOMAIN r THEN r[k] ELSE Undef
\* readings.k = v
Assign(r, k, v) == [j \in DOMAIN r \cup {k} |-> IF j = k THEN v ELSE r[j]]
Settled(res, val) == [res |-> res, val |-> val]

\* faulty variant of swapReversed: the produced counters are left as they are
swapReversedConsumedOnly(readings) ==
    LET tmp == readings IN
    Assign(Assign(readings, "p1", Field(tmp, "p2")), "p2", Field(tmp, "p1"))
\* if (this.reversed) { tmp = {...readings}; p1 <-> p2; n1 <-> n2 }
swapReversed(readings) ==
    LET tmp == readings IN
    Assign(Assign(Assign(Assign(readings,
        "p1", Field(tmp, "p2")),
        "p2", Field(tmp, "p1")),
        "n1", Field(tmp, "n2")),
        "n2", Field(tmp, "n1"))

\* the regular expressions of strategy A; result holds, per expression, the
\* text its group captures in the response, Undef where exec gives null
PowerRegexes == {"regexMeasurePower", "regexMeasurePowerProduced", "regexPowerPeak",
                 "regexPowerOffpeak", "regexPowerPeakProduced", "regexPowerOffpeakProduced",
                 "regexPowerTm"}
GasRegexes == {"regexGas", "regexGasTm"}

\* faulty variant of netEnergy: the balance is not rounded
netEnergyUnrounded(powerPeak, powerOffpeak, powerPeakProduced, powerOffpeakProduced) ==
    Sub(Sub(Add(powerPeak, powerOffpeak), powerPeakProduced), powerOffpeakProduced)
\* Math.round(10000 * (powerPeak + powerOffpeak - powerPeakProduced - powerOffpeakProduced)) / 10000
netEnergy(powerPeak, powerOffpeak, powerPeakProduced, powerOffpeakProduced) ==
    RoundTo(Sub(Sub(Add(powerPeak, powerOffpeak), powerPeakProduced), powerOffpeakProduced), 4)

\* the first try block: the seven captures, then the seven assignments
powerReadings(result) ==
    LET measurePower == ToNum(result.regexMeasurePower)
        measurePowerProduced == ToNum(result.regexMeasurePowerProduced)
        powerPeak == DivBy1000(ToNum(result.regexPowerPeak))
        powerOffpeak == DivBy1000(ToNum(result.regexPowerOffpeak))
        powerPeakProduced == DivBy1000(ToNum(result.regexPowerPeakProduced))
        powerOffpeakProduced == DivBy1000(ToNum(result.regexPowerOffpeakProduced))
        powerTm == DateSeconds(result.regexPowerTm)
    IN  IF \E x \in PowerRegexes : result[x] = Undef THEN NoReadings
        ELSE [k \in {"pwr", "net", "p2", "p1", "n2", "n1", "tm"} |->
                CASE k = "pwr" -> Sub(measurePower, measurePowerProduced)
                  [] k = "net" -> netEnergy(powerPeak, powerOffpeak, powerPeakProduced,
                                            powerOffpeakProduced)
                  [] k = "p2" -> powerPeak
                  [] k = "p1" -> powerOffpeak
                  [] k = "n2" -> powerPeakProduced
                  [] k = "n1" -> powerOffpeakProduced
                  [] k = "tm" -> powerTm]
\* the second try block
gasReadings(result, readings) ==
    IF \E x \in GasRegexes : result[x] = Undef THEN readings
    ELSE Assign(Assign(readings, "gas", ToNum(result.regexGas)), "gtm", DateSeconds(result.regexGasTm))

\* faulty variant of getMeterReadings1: the readings are refused when the power
\* timestamp is missing, whatever the gas timestamp
getMeterReadings1PowerOnly(result, reversed) ==
    LET readings == gasReadings(result, powerReadings(result)) IN
    IF Falsy(Field(readings, "tm")) THEN Settled("rejected", ErrMeterInfo)
    ELSE Settled("resolved", IF reversed THEN swapReversed(readings) ELSE readings)
\* _getMeterReadings1 once the response text is in
getMeterReadings1(result, reversed) ==
    LET readings == gasReadings(result, powerReadings(result)) IN
    IF Falsy(Field(readings, "tm")) /\ Falsy(Field(readings, "gtm"))
    THEN Settled("rejected", ErrMeterInfo)
    ELSE Settled("resolved", IF reversed THEN swapReversed(readings) ELSE readings)

\* the parsed tree strategy B reads. Where the document has several sibling
\* elements of one name the parser gives an array, where it has one it gives the
\* element itself: Many(s) is the array, One(x) the single element
Many(s) == [array |-> TRUE, items |-> s]
One(x) == [array |-> FALSE, items |-> <<x>>]
\* a measurement element: its tariff attributes ("undefined" for one it does not
\* carry) and its _text
Measurement(tariff_indicator, tariff, text) ==
    [attributes |-> [tariff_indicator |-> tariff_indicator, tariff |-> tariff], text |-> text]
\* a log element: type._text, period.measurement, updated_date._text
Log(type, measurement, updated_date) ==
    [type |-> type, measurement |-> measurement, updated_date |-> updated_date]

\* the accumulators of _getMeterReadings2 as declared; thrown: a TypeError was raised
Accumulators ==
    [measurePower |-> Dec(0, 0), measurePowerProduced |-> Dec(0, 0),
     powerPeak |-> Dec(0, 0), powerOffpeak |-> Dec(0, 0),
     powerPeakProduced |-> Dec(0, 0), powerOffpeakProduced |-> Dec(0, 0),
     powerTm |-> Str(DateZero), gas |-> Dec(0, 0), gasTm |-> Str(DateZero),
     l1c |-> Undef, l1p |-> Undef, l2c |-> Undef, l2p |-> Undef, l3c |-> Undef, l3p |-> Undef,
     v1 |-> Undef, v2 |-> Undef, v3 |-> Undef, thrown |-> FALSE]

\* faulty variant of byTariff: the attribute is looked up under the name tariff_indicator only
byTariffIndicatorOnly(measurement, tariff) ==
    SelectSeq(measurement.items, LAMBDA m : m.attributes.tariff_indicator = tariff)
\* measurement.filter(m => m._attributes.tariff_indicator === tariff || m._attributes.tariff === tariff)
byTariff(measurement, tariff) ==
    SelectSeq(measurement.items,
              LAMBDA m : m.attributes.tariff_indicator = tariff \/ m.attributes.tariff = tariff)
\* filter(...)[0]._text is a TypeError on a single element and on an empty selection
throwsByTariff(measurement, tariff) ==
    ~measurement.array \/ byTariff(measurement, tariff) = <<>>
\* measurement._text: undefined on an array
textOf(measurement) == IF measurement.array THEN Undef ELSE measurement.items[1].text
\* Array.isArray(m) ? m[1]._text + m[0]._text : m._text
sumOrText(measurement) ==
    IF measurement.array THEN Plus(measurement.items[2].text, measurement.items[1].text)
    ELSE measurement.items[1].text
throwsSumOrText(measurement) == measurement.array /\ Len(measurement.items) < 2

\* the callback of logs.cumulative_log.forEach
cumulativeLog(acc, log) ==
    IF log.type \in {"electricity_consumed", "electricity_produced"}
          /\ (throwsByTariff(log.measurement, "nl_offpeak") \/ throwsByTariff(log.measurement, "nl_peak"))
    THEN [acc EXCEPT !.thrown = TRUE]
    ELSE IF log.type = "electricity_consumed" THEN
        [acc EXCEPT !.powerOffpeak = DivBy1000(ToNum(byTariff(log.measurement, "nl_offpeak")[1].text)),
                    !.powerPeak = DivBy1000(ToNum(byTariff(log.measurement, "nl_peak")[1].text)),
                    !.powerTm = log.updated_date]
    ELSE IF log.type = "electricity_produced" THEN
        [acc EXCEPT !.powerOffpeakProduced = DivBy1000(ToNum(byTariff(log.measurement, "nl_offpeak")[1].text)),
                    !.powerPeakProduced = DivBy1000(ToNum(byTariff(log.measurement, "nl_peak")[1].text))]
    ELSE IF log.type = "gas_consumed" THEN
        [acc EXCEPT !.gas = textOf(log.measurement), !.gasTm = log.updated_date]
    ELSE acc

\* the callback of logs.point_log.forEach
pointLog(acc, log) ==
    CASE log.type = "voltage_phase_one" -> [acc EXCEPT !.v1 = textOf(log.measurement)]
      [] log.type = "voltage_phase_two" -> [acc EXCEPT !.v2 = textOf(log.measurement)]
      [] log.type = "voltage_phase_three" -> [acc EXCEPT !.v3 = textOf(log.measurement)]
      [] log.type = "electricity_phase_one_consumed" -> [acc EXCEPT !.l1c = textOf(log.measurement)]
      [] log.type = "electricity_phase_one_produced" -> [acc EXCEPT !.l1p = textOf(log.measurement)]
      [] log.type = "electricity_phase_two_consumed" -> [acc EXCEPT !.l2c = textOf(log.measurement)]
      [] log.type = "electricity_phase_two_produced" -> [acc EXCEPT !.l2p = textOf(log.measurement)]
      [] log.type = "electricity_phase_three_consumed" -> [acc EXCEPT !.l3c = textOf(log.measurement)]
      [] log.type = "electricity_phase_three_produced" -> [acc EXCEPT !.l3p = textOf(log.measurement)]
      [] log.type \in {"electricity_consumed", "electricity_produced"}
            /\ throwsSumOrText(log.measurement) -> [acc EXCEPT !.thrown = TRUE]
      [] log.type = "electricity_consumed" -> [acc EXCEPT !.measurePower = sumOrText(log.measurement)]
      [] log.type = "electricity_produced" -> [acc EXCEPT !.measurePowerProduced = sumOrText(log.measurement)]
      [] OTHER -> acc

\* forEach over the two collections; a throw ends the walk
RECURSIVE cumulativeWalk(_, _)
cumulativeWalk(items, acc) ==
    IF items = <<>> \/ acc.thrown THEN acc
    ELSE cumulativeWalk(Tail(items), cumulativeLog(acc, Head(items)))
RECURSIVE pointWalk(_, _)
pointWalk(items, acc) ==
    IF items = <<>> \/ acc.thrown THEN acc
    ELSE pointWalk(Tail(items), pointLog(acc, Head(items)))

\* the assignments that follow the two walks
readings2(a) ==
    LET l1 == Sub(ToNum(a.l1c), ToNum(a.l1p))
        l2 == Sub(ToNum(a.l2c), ToNum(a.l2p))
        l3 == Sub(ToNum(a.l3c), ToNum(a.l3p))
    IN  [k \in {"pwr", "l1", "l2", "l3", "v1", "v2", "v3", "i1", "i2", "i3",
                "net", "p2", "p1", "n2", "n1", "tm", "gas", "gtm"} |->
            CASE k = "pwr" -> Sub(ToNum(a.measurePower), ToNum(a.measurePowerProduced))
              [] k = "l1" -> l1
              [] k = "l2" -> l2
              [] k = "l3" -> l3
              [] k = "v1" -> a.v1
              [] k = "v2" -> a.v2
              [] k = "v3" -> a.v3
              [] k = "i1" -> DivRound2(l1, ToNum(a.v1))
              [] k = "i2" -> DivRound2(l2, ToNum(a.v2))
              [] k = "i3" -> DivRound2(l3, ToNum(a.v3))
              [] k = "net" -> netEnergy(a.powerPeak, a.powerOffpeak, a.powerPeakProduced,
                                        a.powerOffpeakProduced)
              [] k = "p2" -> a.powerPeak
              [] k = "p1" -> a.powerOffpeak
              [] k = "n2" -> a.powerPeakProduced
              [] k = "n1" -> a.powerOffpeakProduced
              [] k = "tm" -> DateSeconds(a.powerTm)
              [] k = "gas" -> a.gas
              [] k = "gtm" -> DateSeconds(a.gasTm)]

\* _getMeterReadings2 once the response is parsed into logs
getMeterReadings2(logs, reversed) ==
    IF ~logs.cumulative_log.array \/ ~logs.point_log.array THEN Settled("rejected", ErrTypeError)
    ELSE LET a == pointWalk(logs.point_log.items,
                            cumulativeWalk(logs.cumulative_log.items, Accumulators))
             readings == readings2(a)
         IN  IF a.thrown THEN Settled("rejected", ErrTypeError)
             ELSE Settled("resolved", IF reversed THEN swapReversed(readings) ELSE readings)

(* ---------------- the responses the extractors are applied to ---------------- *)
\* what the nine expressions of strategy A capture in a response
ModulesResults ==
    [regexMeasurePower : {Undef, Str(<<"1","1","3","0">>), Str(<<"x">>)},
     regexMeasurePowerProduced : {Undef, Str(<<"0">>)},
     regexPowerPeak : {Undef, Str(<<"7","1","7","3","5","2","6">>), Str(<<"0",".","1","6">>)},
     regexPowerOffpeak : {Undef, Str(<<"1","0","6","9","4","6","7","4">>)},
     regexPowerPeakProduced : {Undef, Str(<<"2","9","7","9","3","3","9">>)},
     regexPowerOffpeakProduced : {Undef, Str(<<"1","1","0","0","7","5","5">>), Str(<<"0",".","1","6">>)},
     regexPowerTm : {Undef, Str(DatePower), Str(DateInvalid)},
     regexGas : {Undef, Str(<<"1","2","3","4",".","5","6","7">>)},
     regexGasTm : {Undef, Str(DateGas), Str(DateInvalid)}]

\* the two tariff measurements of a cumulative electricity log, in either order
\* and under either attribute name, and a log with one measurement only
SplitMeasurements(offpeak, peak) ==
    {Many(<<Measurement("nl_offpeak", "undefined", offpeak), Measurement("nl_peak", "undefined", peak)>>),
     Many(<<Measurement("nl_peak", "undefined", peak), Measurement("nl_offpeak", "undefined", offpeak)>>),
     Many(<<Measurement("undefined", "nl_peak", peak), Measurement("undefined", "nl_offpeak", offpeak)>>),
     One(Measurement("nl_offpeak", "undefined", offpeak))}
Plain(text) == One(Measurement("undefined", "undefined", text))
\* a log that may be missing from the response
Maybe(logs) == {<<>>} \cup {<<l>> : l \in logs}

CumulativeLogs ==
    {c \o p \o g :
        c \in Maybe({Log("electricity_consumed", m, Str(DatePower)) :
                        m \in SplitMeasurements(Dec(10694674, 0), Dec(7173526, 0))
                              \cup {Many(<<Measurement("undefined", "nl_peak", Dec(16, 2)),
                                           Measurement("undefined", "nl_offpeak", Dec(12, 0))>>)}}),
        p \in Maybe({Log("electricity_produced", m, Str(DatePower)) :
                        m \in {Many(<<Measurement("nl_offpeak", "undefined", Dec(1100755, 0)),
                                      Measurement("nl_peak", "undefined", Dec(2979339, 0))>>),
                               Many(<<Measurement("undefined", "nl_peak", Dec(2979339, 0)),
                                      Measurement("undefined", "nl_offpeak", Dec(1100755, 0))>>)}}),
        g \in Maybe({Log("gas_consumed", Plain(Dec(1234567, 3)), Str(DateGas))})}

\* what a phase reports: nothing, voltage and both powers, the powers only, or
\* no produced power
PhaseProfiles == {"none", "full", "noVoltage", "noProduced"}
ThirdPhaseProfiles == {"none", "full"}
PhaseLogs(phase, profile, v, c, p) ==
    (IF profile \in {"full", "noProduced"}
     THEN <<Log("voltage_phase_" \o phase, Plain(v), Str(DatePower))>> ELSE <<>>)
    \o (IF profile # "none"
        THEN <<Log("electricity_phase_" \o phase \o "_consumed", Plain(c), Str(DatePower))>> ELSE <<>>)
    \o (IF profile \in {"full", "noVoltage"}
        THEN <<Log("electricity_phase_" \o phase \o "_produced", Plain(p), Str(DatePower))>> ELSE <<>>)
PointLogs ==
    {PhaseLogs("one", p1, Dec(230, 0), Dec(460, 0), Dec(0, 0))
     \o PhaseLogs("two", p2, Dec(2315, 1), Dec(100, 0), Dec(350, 0))
     \o PhaseLogs("three", p3, Dec(229, 0), Dec(77, 0), Dec(0, 0))
     \o c \o p :
        p1 \in PhaseProfiles, p2 \in PhaseProfiles, p3 \in ThirdPhaseProfiles,
        c \in Maybe({Log("electricity_consumed", m, Str(DatePower)) :
                        m \in {Plain(Dec(1130, 0)),
                               Many(<<Measurement("nl_peak", "undefined", Dec(600, 0)),
                                      Measurement("nl_offpeak", "undefined", Dec(530, 0))>>)}}),
        p \in Maybe({Log("electricity_produced", Plain(Dec(250, 0)), Str(DatePower))})}

\* the parsed responses of strategy B; a response with one cumulative log only
\* does not hold an array of them
ObjectsResults ==
    {[cumulative_log |-> Many(c), point_log |-> Many(p)] : c \in CumulativeLogs, p \in PointLogs}
    \cup {[cumulative_log |-> One(Log("gas_consumed", Plain(Dec(1234567, 3)), Str(DateGas))),
           point_log |-> Many(<<>>)]}

ReadingsInputs ==
    {[method |-> 1, reversed |-> r, response |-> x] : r \in BOOLEAN, x \in ModulesResults}
    \cup {[method |-> 2, reversed |-> r, response |-> x] : r \in BOOLEAN, x \in ObjectsResults}

\* the extractor of the session's strategy is applied to a response
InitReadings ==
    /\ NewSession([host |-> Undef, meterMethod |-> Undef], FALSE)
    /\ input \in ReadingsInputs
    /\ output = Undef

Unexamined ==
    /\ output = Undef
    /\ UNCHANGED <<options, loggedIn, host, firmwareLevel, meterMethod, lastResponse, calls,
                   concurrent, rebooted, input>>

parseReadings1 ==
    /\ Unexamined
    /\ input.method = 1
    /\ output' = getMeterReadings1(input.response, input.reversed)

parseReadings2 ==
    /\ Unexamined
    /\ input.method = 2
    /\ output' = getMeterReadings2(input.response, input.reversed)

NextReadings == parseReadings1 \/ parseReadings2

SpecReadings == InitReadings /\ [][NextReadings]_vars

(* ---------------- flatten ---------------- *)
\* a parsed tree: an object is the sequence of its entries in key order, an
\* array the sequence of its items; texts and attribute values are strings or
\* numbers
Entry(k, v) == [k |-> k, v |-> v]
Arr(items) == [t |-> "array", v |-> items]
\* the nesting level beyond which flatten hands its argument back (lvl > 10)
MaxLevel == 10

\* Object.keys(x): the keys of an object, the indices of an array or of a
\* string, nothing for a number
Indices(n) == [i \in 1..n |-> Digits[i]]
Keys(x) ==
    CASE x.t = "object" -> [i \in 1..Len(x.v) |-> x.v[i].k]
      [] x.t \in {"array", "string"} -> Indices(Len(x.v))
      [] OTHER -> <<>>
\* x[key] for a key of x
Get(x, key) ==
    CASE x.t = "object" -> (CHOOSE e \in {x.v[i] : i \in 1..Len(x.v)} : e.k = key).v
      [] x.t = "array" -> x.v[DigitValue(key) + 1]
      [] x.t = "string" -> Str(<<x.v[DigitValue(key) + 1]>>)
\* Object.prototype.hasOwnProperty.call(x, '_text')
HasOwnText(x) == x.t = "object" /\ \E i \in 1..Len(x.v) : x.v[i].k = "_text"

\* the record under construction (const flat = {}) is a function from its keys;
\* a value of it is a raw value of the tree or a reference to the record of a
\* nested call, named by the path of keys that leads to it
FlatRef(id) == [t |-> "ref", v |-> id]
Delete(r, k) == [j \in DOMAIN r \ {k} |-> r[j]]
Front(s) == SubSeq(s, 1, Len(s) - 1)
\* the run of one call of flatten by a caller:
\*   flats    : the record of every call that got past the level test
\*   returned : the calls that handed their argument back, with that argument
\*   queue    : the microtask queue
\*   result   : what the awaiting caller receives, Undef until it resumes
NoRun == [flats |-> <<>>, returned |-> <<>>, queue |-> <<>>, result |-> Undef, resumed |-> FALSE]
SetFlat(st, id, k, v) == [st EXCEPT !.flats[id] = Assign(@, k, v)]

\* Object.keys(json[key]).forEach((attr) => { flat[attr] = json[key][attr]; })
RECURSIVE hoist(_, _, _, _)
hoist(attributes, attrs, id, st) ==
    IF attrs = <<>> THEN st
    ELSE hoist(attributes, Tail(attrs), id, SetFlat(st, id, Head(attrs), Get(attributes, Head(attrs))))

\* faulty variant of pastDepthBound: one more level is expanded
pastDepthBoundLate(lvl) == lvl > MaxLevel + 1
\* if (lvl > 10) return json
pastDepthBound(lvl) == lvl > MaxLevel

RECURSIVE flattenSync(_, _, _, _)
RECURSIVE callback(_, _, _, _, _)
RECURSIVE eachKey(_, _, _, _, _)
\* the callback of Object.keys(json).forEach up to the point where it returns
\* or waits for the nested call
callback(json, key, lvl, id, st) ==
    LET child == Get(json, key)
        n == Len(Keys(child))
        nested == flattenSync(child, lvl, Append(id, key), SetFlat(st, id, key, child))
    IN  IF key = "_attributes" THEN hoist(child, Keys(child), id, st)
        ELSE IF n = 0 THEN
            IF key = "_text"
            THEN [st EXCEPT !.flats[id] = Assign(Delete(@, key), "value", child)]
            ELSE SetFlat(st, id, key, Undef)
        ELSE IF n = 1 /\ HasOwnText(child) THEN SetFlat(st, id, key, Get(child, "_text"))
        ELSE IF Append(id, key) \in DOMAIN nested.returned
             \* the nested promise is already fulfilled: the assignment is queued at once
             THEN [nested EXCEPT !.queue = Append(@, [job |-> "assign", id |-> id, key |-> key,
                                                      value |-> nested.returned[Append(id, key)]])]
             ELSE nested
\* (no record is resumed during the walk: the test makes the callbacks be
\* evaluated one after the other, in key order)
eachKey(json, keys, lvl, id, st) ==
    IF keys = <<>> \/ st.resumed THEN st
    ELSE eachKey(json, Tail(keys), lvl, id, callback(json, Head(keys), lvl, id, st))
\* flatten(json, level) up to its return: level 0 stands for no level given.
\* Returning Promise.resolve(flat) from the async function queues the job that
\* adopts that promise
flattenSync(json, level, id, st) ==
    LET lvl == IF level # 0 THEN level + 1 ELSE 1 IN
    IF pastDepthBound(lvl) THEN [st EXCEPT !.returned = (id :> json) @@ @]
    ELSE LET walked == eachKey(json, Keys(json), lvl, id,
                               [st EXCEPT !.flats = (id :> NoReadings) @@ @])
         IN  [walked EXCEPT !.queue = Append(@, [job |-> "adopt", id |-> id, key |-> "", value |-> Undef])]

\* the tree a value stands for once the references are followed
RECURSIVE Deref(_, _)
Deref(v, flats) ==
    IF v.t = "ref"
    THEN [t |-> "flat", v |-> [k \in DOMAIN flats[v.v] |-> Deref(flats[v.v][k], flats)]]
    ELSE v

\* faulty variant of runJob: a callback waiting for a nested call resumes one microtask late
runJobLateAssign(st) ==
    LET j == Head(st.queue)
        rest == [st EXCEPT !.queue = Tail(@)]
        Queue(job, id, key, value) ==
            [rest EXCEPT !.queue = Append(@, [job |-> job, id |-> id, key |-> key, value |-> value])]
    IN  CASE j.job = "adopt" -> Queue("settle", j.id, "", Undef)
          [] j.job = "settle" /\ j.id = <<>> -> Queue("resume", <<>>, "", Undef)
          [] j.job = "settle" /\ j.id # <<>> -> Queue("late", j.id, "", Undef)
          [] j.job = "late" ->
                Queue("assign", Front(j.id), j.id[Len(j.id)], FlatRef(j.id))
          [] j.job = "assign" -> SetFlat(rest, j.id, j.key, j.value)
          [] j.job = "resume" ->
                [rest EXCEPT !.result = Deref(FlatRef(<<>>), st.flats), !.resumed = TRUE]
\* the microtask at the head of the queue runs:
\*   adopt  : then() of the already fulfilled Promise.resolve(flat) queues its reaction
\*   settle : the promise of call id is fulfilled; whoever awaits it is queued
\*   assign : flat[key] = await flatten(json[key], lvl) completes in the caller's record
\*   resume : the caller of the outermost flatten receives the record
runJob(st) ==
    LET j == Head(st.queue)
        rest == [st EXCEPT !.queue = Tail(@)]
        Queue(job, id, key, value) ==
            [rest EXCEPT !.queue = Append(@, [job |-> job, id |-> id, key |-> key, value |-> value])]
    IN  CASE j.job = "adopt" -> Queue("settle", j.id, "", Undef)
          [] j.job = "settle" /\ j.id = <<>> -> Queue("resume", <<>>, "", Undef)
          [] j.job = "settle" /\ j.id # <<>> ->
                Queue("assign", Front(j.id), j.id[Len(j.id)], FlatRef(j.id))
          [] j.job = "assign" -> SetFlat(rest, j.id, j.key, j.value)
          [] j.job = "resume" ->
                [rest EXCEPT !.result = Deref(FlatRef(<<>>), st.flats), !.resumed = TRUE]

(* ---------------- the trees flatten is applied to ---------------- *)
\* an element with an attribute and a numeric text, then n - 1 elements around it
RECURSIVE Chain(_)
Chain(n) ==
    IF n <= 1
    THEN Obj(<<Entry("_attributes", Obj(<<Entry("id", Num(7))>>)), Entry("_text", Num(5))>>)
    ELSE Obj(<<Entry("e", Chain(n - 1))>>)
\* the deepest nesting of the trees
MaxNesting == 12

TextHi == Str(<<"h","i">>)
\* <measurement log_date=.. unit='W'>1130</measurement>
ElementNumber ==
    Obj(<<Entry("_attributes", Obj(<<Entry("log_date", Str(DatePower)), Entry("unit", Str(<<"W">>))>>)),
          Entry("_text", Num(1130))>>)
\* <point_log id='7'><type>hi</type><unit/><period>..</period></point_log>
ElementChildren ==
    Obj(<<Entry("_attributes", Obj(<<Entry("id", Num(7))>>)),
          Entry("type", Obj(<<Entry("_text", TextHi)>>)),
          Entry("unit", Obj(<<>>)),
          Entry("period", Obj(<<Entry("measurement", ElementNumber)>>))>>)
\* two sibling elements of one name
ElementArray ==
    Obj(<<Entry("measurement", Arr(<<ElementNumber, Obj(<<Entry("_text", Num(0))>>)>>))>>)
\* <type id='7'>hi</type>
ElementText ==
    Obj(<<Entry("_attributes", Obj(<<Entry("id", Num(7))>>)), Entry("_text", TextHi)>>)
\* an attribute and a child of one name, in both key orders
ElementSameName ==
    Obj(<<Entry("_attributes", Obj(<<Entry("type", Num(1))>>)),
          Entry("type", Obj(<<Entry("_text", Num(2))>>))>>)
ElementSameNameSwapped ==
    Obj(<<Entry("type", Obj(<<Entry("_text", Num(2))>>)),
          Entry("_attributes", Obj(<<Entry("type", Num(1))>>))>>)
ParsedTrees == {ElementNumber, ElementChildren, ElementArray, ElementText,
                ElementSameName, ElementSameNameSwapped, Obj(<<>>)}
\* records whose values are leaves already
FlatRecords ==
    {Obj(<<Entry("unit", Str(<<"W">>))>>),
     Obj(<<Entry("value", Num(1130))>>),
     Obj(<<Entry("unit", Str(<<"W">>)), Entry("value", Num(1130))>>),
     Obj(<<Entry("value", Num(1130)), Entry("unit", Str(<<"W">>))>>)}

FlattenInputs == {Chain(n) : n \in 1..MaxNesting} \cup ParsedTrees \cup FlatRecords

InitFlatten ==
    /\ NewSession([host |-> Undef, meterMethod |-> Undef], FALSE)
    /\ input \in FlattenInputs
    /\ output = Undef

\* a caller runs await flatten(input)
flattenCalled ==
    /\ Unexamined
    /\ output' = flattenSync(input, 0, <<>>, NoRun)

\* the event loop runs the next microtask
microtask ==
    /\ output # Undef
    /\ output.queue # <<>>
    /\ output' = runJob(output)
    /\ UNCHANGED <<options, loggedIn, host, firmwareLevel, meterMethod, lastResponse, calls,
                   concurrent, rebooted, input>>

NextFlatten == flattenCalled \/ microtask

SpecFlatten == InitFlatten /\ [][NextFlatten]_vars
\* the event loop does not stop while a microtask is queued
SpecFlattenFair == SpecFlatten /\ WF_vars(microtask)

(* ---------------- the settings login takes from its options ---------------- *)
defaultTimeout == 10000
\* the settings of a session: this.id, this.host, this.port, this.timeout,
\* this.reversed, this.meterMethod
SettingKeys == {"id", "host", "port", "timeout", "reversed", "meterMethod"}
SmileId == <<"h","c","f","r","a","s","d","e">>
OtherSmileId == <<"a","b","c","d","e","f","g","h">>
\* the settings of sessions as their constructor leaves them
SessionSettings ==
    [id : {Undef, Str(SmileId)},
     host : {Str(defaultHost), Str(ExplicitHost)},
     port : {Num(defaultPort), Num(443)},
     timeout : {Num(defaultTimeout)},
     reversed : BOOLEAN,
     meterMethod : MeterMethodOptions]
\* an options object: per key, the value passed or Absent for a key left out
Absent == [t |-> "absent"]
LoginOptions ==
    [id : {Absent, Str(OtherSmileId)},
     host : {Absent, Str(LanIp)},
     port : {Absent, Num(443)},
     timeout : {Absent, Num(5000)},
     reversed : {Absent, Bool(TRUE), Bool(FALSE)},
     meterMethod : {Absent, Num(1), Num(2)}]
\* Object.prototype.hasOwnProperty.call(options, key) and options.key
HasOwn(opts, key) == opts[key] # Absent
Option(opts, key) == IF HasOwn(opts, key) THEN opts[key] ELSE Undef
\* a || b
Or(a, b) == IF Truthy(a) THEN a ELSE b

\* login, lines 114 to 119: the settings after the options were taken over
loginOptions(this, opts) ==
    [id |-> Or(Option(opts, "id"), this.id),
     host |-> Or(Option(opts, "host"), this.host),
     port |-> Or(Option(opts, "port"), this.port),
     timeout |-> Or(Option(opts, "timeout"), this.timeout),
     reversed |-> IF HasOwn(opts, "reversed") THEN opts.reversed.v ELSE this.reversed,
     meterMethod |-> this.meterMethod]

InitLogin ==
    /\ NewSession([host |-> Undef, meterMethod |-> Undef], FALSE)
    /\ input \in [this : SessionSettings, options : LoginOptions]
    /\ output = Undef

\* login(options) is called on the session and takes the options over
loginCalled ==
    /\ Unexamined
    /\ output' = loginOptions(input.this, input.options)

NextLogin == loginCalled

SpecLogin == InitLogin /\ [][NextLogin]_vars

(* ---------------- vocabulary of the properties ---------------- *)
NonForcedOps == {"getStatus", "getMeterReadings", "getLogs", "getInterfaceStatus", "getWifiScan"}

\* caller c's operation takes a step by receiving a response while suspended at pc
Receives(c, pc) == calls[c].pc = pc /\ calls'[c] # calls[c]
\* caller c's operation settles in this step
Settles(c) == calls[c].pc # "done" /\ calls'[c].pc = "done"
Resolved(k, v) == k.pc = "done" /\ k.res = "resolved" /\ k.val = v
Rejected(k, e) == k.pc = "done" /\ k.res = "rejected" /\ k.val = e
InSeq(x, q) == \E i \in 1..Len(q) : q[i] = x

\* reference classification of a response to a device request: the error the
\* request fails with, Undef when it yields the body
RefRequestError(r) ==
    CASE r.kind = "error" -> ErrTransport
      [] r.kind = "incomplete" -> ErrTerminated
      [] r.kind = "reply" /\ r.statusCode = 401 -> Err401
      [] r.kind = "reply" /\ r.statusCode \notin {200, 401} -> ErrStatus
      [] r.kind = "reply" /\ r.statusCode = 200 /\ r.contentType # "text/xml" -> ErrContentType
      [] OTHER -> Undef
\* reference classification of a response to the discovery lookup
RefDiscoverError(r) ==
    CASE r.kind = "error" -> ErrTransport
      [] r.kind = "incomplete" -> ErrTerminated
      [] r.kind = "reply" /\ r.statusCode = 404 -> ErrDiscoveryId
      [] r.kind = "reply" /\ r.statusCode \notin {200, 404} -> ErrDiscoveryStatus
      [] r.kind = "reply" /\ r.statusCode = 200 /\ r.contentType # "application/json" -> ErrDiscoveryType
      [] r.kind = "reply" /\ r.statusCode = 200 /\ ~r.body.json -> ErrParse
      [] OTHER -> Undef

(* ---------------- C1 ---------------- *)
\* C1: while loggedIn is false, every getStatus, getMeterReadings, getLogs,
\* getInterfaceStatus and getWifiScan call has been rejected with 'Not logged
\* in' and has issued no transport call, whatever firmwareLevel and
\* meterMethod are.
C1_NotLoggedInRejects ==
    \A c \in Callers :
        (calls[c].op \in NonForcedOps /\ ~loggedIn)
            => Rejected(calls[c], ErrNotLoggedIn) /\ calls[c].reqs = <<>>

(* ---------------- C2 ---------------- *)
\* a session on which no transport call has come back yet: no login() has
\* succeeded on it, since a login resolves only after a probe came back
NoLoginYet == lastResponse = Undef

\* C2: a non-forced operation attempted on a newly constructed session, before
\* any login() has succeeded, fails with the not-logged-in error.
C2_NewSessionRejects ==
    \A c \in Callers :
        (calls[c].op \in NonForcedOps /\ NoLoginYet)
            => Rejected(calls[c], ErrNotLoggedIn)

(* ---------------- C3 ---------------- *)
\* login() called in any state: when a step of host resolution or of
\* firmware detection fails, login sets loggedIn to false and rejects with
\* that step's error; when firmware detection completes without error, login
\* sets loggedIn to true and resolves true; in between loggedIn is untouched.
C3_LoginStep(c) ==
    /\ Receives(c, "discover") =>
            LET e == RefDiscoverError(calls'[c].got) IN
            IF e # Undef
            THEN Rejected(calls'[c], e) /\ ~loggedIn'
            ELSE calls'[c].pc = "fw3" /\ loggedIn' = loggedIn
    /\ Receives(c, "fw3") =>
            LET r == calls'[c].got
                e == RefRequestError(r) IN
            IF e # Undef
            THEN Rejected(calls'[c], e) /\ ~loggedIn'
            ELSE IF r.body.firmware_version # Undef
            THEN Resolved(calls'[c], Bool(TRUE)) /\ loggedIn'
            ELSE calls'[c].pc = "fw2" /\ loggedIn' = loggedIn
    /\ Receives(c, "fw2") =>
            LET e == RefRequestError(calls'[c].got) IN
            IF e # Undef
            THEN Rejected(calls'[c], e) /\ ~loggedIn'
            ELSE Resolved(calls'[c], Bool(TRUE)) /\ loggedIn'
\* C3: every step of every login() call obeys C3_LoginStep: a failing step
\* rejects with its error and clears loggedIn, completed detection resolves
\* true and sets loggedIn.
C3_LoginSetsLoggedIn ==
    [][\A c \in Callers : calls[c].op = "login" => C3_LoginStep(c)]_vars

\* a login called on a logged-out session has resolved, with no version detected
C3_Witness ==
    \E c \in Callers :
        /\ calls[c].op = "login" /\ Resolved(calls[c], Bool(TRUE))
        /\ loggedIn /\ firmwareLevel = Undef /\ Len(calls[c].reqs) = 3

(* ---------------- C4 ---------------- *)
\* reboot() sets loggedIn to false and resolves true if and only if the
\* response headers contain the vendor marker; otherwise it rejects with
\* 'reboot failed' or the transport error and loggedIn keeps its value.
C4_RebootStep(c) ==
    Receives(c, "reboot") =>
        LET r == calls'[c].got IN
        IF r.kind = "reply" /\ r.vendor
        THEN Resolved(calls'[c], Bool(TRUE)) /\ ~loggedIn'
        ELSE /\ loggedIn' = loggedIn
             /\ CASE r.kind = "error" -> Rejected(calls'[c], ErrTransport)
                  [] r.kind = "incomplete" -> Rejected(calls'[c], ErrTerminated)
                  [] OTHER -> Rejected(calls'[c], ErrRebootFailed)
\* C4: every reboot() call settles as C4_RebootStep says: resolved true with
\* loggedIn false exactly on the vendor marker, otherwise rejected with
\* loggedIn unchanged.
C4_RebootLogsOut ==
    [][\A c \in Callers : calls[c].op = "reboot" => C4_RebootStep(c)]_vars

\* a reboot answered 401 with the vendor marker has logged the session out
C4_Witness ==
    \E c \in Callers :
        /\ calls[c].op = "reboot" /\ Resolved(calls[c], Bool(TRUE))
        /\ calls[c].got.vendor /\ calls[c].got.statusCode = 401 /\ ~loggedIn

(* ---------------- C5 ---------------- *)
\* C5: loggedIn goes from true to false only in the step in which a login()
\* rejects or a reboot() resolves; an operation other than login and reboot
\* that fails leaves loggedIn as it was.
C5_OnlyLoginAndReboot ==
    [][/\ (loggedIn /\ ~loggedIn') =>
             \E c \in Callers :
                 /\ Settles(c)
                 /\ \/ calls'[c].op = "login" /\ calls'[c].res = "rejected"
                    \/ calls'[c].op = "reboot" /\ calls'[c].res = "resolved"
       /\ \A c \in Callers :
             (Settles(c) /\ calls'[c].op \notin {"login", "reboot"} /\ calls'[c].res = "rejected")
                 => loggedIn' = loggedIn]_vars

\* after a data request was answered 401, the session is still logged in and
\* the next operation's request is in flight
C5_Witness ==
    \E c \in Callers :
        /\ lastResponse = Num(401) /\ loggedIn
        /\ calls[c].op = "getLogs" /\ calls[c].pc = "logs"
(* ---------------- C6 ---------------- *)
\* C6: when meterMethod 1 or 2 was supplied at construction, meterMethod keeps
\* that value whatever was detected since, and a getMeterReadings call issues
\* no firmware probe: if logged in its only request is the readings request
\* of the supplied strategy, otherwise it issues none.
C6_ForcedMethodWins ==
    options.meterMethod \in {Num(1), Num(2)} =>
        /\ meterMethod = options.meterMethod
        /\ \A c \in Callers : calls[c].op = "getMeterReadings" =>
              IF loggedIn
              THEN calls[c].reqs = <<IF options.meterMethod = Num(1) THEN modulesPath ELSE objectsPath>>
              ELSE calls[c].reqs = <<>> /\ Rejected(calls[c], ErrNotLoggedIn)

\* strategy A was forced, firmware 3.3.6 has been detected by a login, and a
\* getMeterReadings call waits for the strategy-A readings
C6_Witness ==
    \E c \in Callers :
        /\ options.meterMethod = Num(1) /\ firmwareLevel = Str(Fw3)
        /\ calls[c].op = "getMeterReadings" /\ calls[c].pc = "readings1"

(* ---------------- C7 ---------------- *)
\* the step in which the detection run by getMeterReadings completes
DetectionCompletes(c) ==
    /\ calls[c].op = "getMeterReadings"
    /\ Receives(c, "fw3") \/ Receives(c, "fw2")
    /\ calls'[c].pc \notin {"fw3", "fw2"}
    /\ RefRequestError(calls'[c].got) = Undef

\* C7: when detection completes, meterMethod is 1 if the leading digit of the
\* detected firmware string is 2 or less and 2 if it is 3 to 9 ('2.1.13'
\* gives 1, '3.3.6' gives 2); with no firmware string detected it stays unset.
C7_StrategySelection ==
    [][\A c \in Callers : DetectionCompletes(c) =>
          /\ firmwareLevel' = Str(Fw2) => meterMethod' = Num(1)
          /\ firmwareLevel' = Str(Fw3) => meterMethod' = Num(2)
          /\ (firmwareLevel'.t = "string" /\ Len(firmwareLevel'.v) > 0) =>
                /\ firmwareLevel'.v[1] \in {"0", "1", "2"} => meterMethod' = Num(1)
                /\ firmwareLevel'.v[1] \in {"3", "4", "5", "6", "7", "8", "9"} => meterMethod' = Num(2)
          /\ firmwareLevel' = Undef => meterMethod' = Undef]_vars

\* detection inside getMeterReadings found 2.1.13 and selected strategy A
C7_Witness ==
    \E c \in Callers :
        /\ options.meterMethod = Undef /\ firmwareLevel = Str(Fw2) /\ meterMethod = Num(1)
        /\ calls[c].op = "getMeterReadings" /\ calls[c].pc = "readings1"
        /\ calls[c].reqs = <<gatewayPath, statusPath, modulesPath>>

(* ---------------- C8 ---------------- *)
\* C8 as claimed: a getMeterReadings call that ran detection while no firmware
\* version is known leaves meterMethod unset and issues neither readings
\* request.
C8_NoDefaultStrategy ==
    \A c \in Callers :
        (calls[c].op = "getMeterReadings" /\ InSeq(gatewayPath, calls[c].reqs)
            /\ firmwareLevel = Undef)
        => /\ meterMethod = Undef
           /\ ~InSeq(modulesPath, calls[c].reqs)
           /\ ~InSeq(objectsPath, calls[c].reqs)

\* C8 amended: when the detection run by getMeterReadings completes without a
\* firmware version, meterMethod stays unset and the call goes on with
\* strategy B as the default: logged in, it issues the strategy-B readings
\* request, logged out it rejects; the strategy-A request is never issued.
C8_DefaultsToStrategyB ==
    [][\A c \in Callers : (DetectionCompletes(c) /\ firmwareLevel' = Undef) =>
          /\ meterMethod' = Undef
          /\ ~InSeq(modulesPath, calls'[c].reqs)
          /\ IF loggedIn
             THEN calls'[c].pc = "readings2" /\ calls'[c].reqs = Append(calls[c].reqs, objectsPath)
             ELSE Rejected(calls'[c], ErrNotLoggedIn) /\ calls'[c].reqs = calls[c].reqs]_vars

\* both probes came back without a version tag and the strategy-B readings
\* request is in flight
C8_Witness ==
    \E c \in Callers :
        /\ calls[c].op = "getMeterReadings" /\ calls[c].pc = "readings2"
        /\ firmwareLevel = Undef /\ meterMethod = Undef
        /\ calls[c].reqs = <<gatewayPath, statusPath, objectsPath>>
(* ---------------- C9 ---------------- *)
\* the operations that run getFirmwareLevel
DetectingOps == {"login", "getFirmwareLevel", "getMeterReadings"}
\* the response is a body that carries the tag
YieldsTag(r, tag) == RefRequestError(r) = Undef /\ r.body[tag] # Undef

\* the parts of C9 that do not depend on what a failed first probe is: the
\* first request is the forced gateway probe, a tag it yields is recorded and
\* ends the detection, and the status probe records the version tag it yields
C9_Probes(c) ==
    /\ (calls[c].pc = "idle" /\ calls'[c].op = "getFirmwareLevel") =>
            calls'[c].pc = "fw3" /\ calls'[c].reqs = <<gatewayPath>>
    /\ calls'[c].pc = "fw3" => LastPath(calls'[c]) = gatewayPath
    /\ (calls'[c].pc = "fw2" /\ calls[c].pc # "fw2") =>
            calls[c].pc = "fw3" /\ calls'[c].reqs = Append(calls[c].reqs, statusPath)
    /\ (Receives(c, "fw3") /\ YieldsTag(calls'[c].got, "firmware_version")) =>
            /\ firmwareLevel' = calls'[c].got.body.firmware_version
            /\ calls'[c].pc # "fw2" /\ ~InSeq(statusPath, calls'[c].reqs)
    /\ (Receives(c, "fw2") /\ YieldsTag(calls'[c].got, "version")) =>
            firmwareLevel' = calls'[c].got.body.version
    /\ (Receives(c, "fw2") /\ ~YieldsTag(calls'[c].got, "version")) =>
            firmwareLevel' = firmwareLevel

\* C9 as claimed: getFirmwareLevel first issues the forced gateway probe and
\* records its firmware_version tag; in every case where that probe yields no
\* tag it then issues the forced status probe and records the version tag
\* found there; the second probe is never issued when the first yielded a tag.
C9_SecondProbeWheneverNoTag ==
    [][\A c \in Callers : calls'[c].op \in DetectingOps =>
          /\ C9_Probes(c)
          /\ (Receives(c, "fw3") /\ ~YieldsTag(calls'[c].got, "firmware_version")) =>
                calls'[c].pc = "fw2"]_vars

\* C9 amended: as claimed, except that the status probe follows only a gateway
\* probe that came back as a 200 text response without the tag; when the
\* gateway probe fails, the operation rejects with that failure, issues no
\* second probe and leaves firmwareLevel as it was.
C9_SecondProbeAfterTaglessBody ==
    [][\A c \in Callers : calls'[c].op \in DetectingOps =>
          /\ C9_Probes(c)
          /\ (Receives(c, "fw3") /\ ~YieldsTag(calls'[c].got, "firmware_version")) =>
                LET e == RefRequestError(calls'[c].got) IN
                IF e = Undef
                THEN calls'[c].pc = "fw2" /\ firmwareLevel' = firmwareLevel
                ELSE /\ Rejected(calls'[c], e)
                     /\ calls'[c].reqs = calls[c].reqs
                     /\ firmwareLevel' = firmwareLevel]_vars

\* getFirmwareLevel called on a logged-out session found no tag on the gateway
\* path and recorded 2.1.13 from the status path
C9_Witness ==
    \E c \in Callers :
        /\ calls[c].op = "getFirmwareLevel" /\ Resolved(calls[c], Str(Fw2))
        /\ calls[c].reqs = <<gatewayPath, statusPath>>
        /\ firmwareLevel = Str(Fw2) /\ ~loggedIn

(* ---------------- C10 ---------------- *)
\* login() issues the discovery lookup, as its first request, if and only
\* if host after applying the passed options is unset or the rendezvous host;
\* with an explicit host it starts with the gateway probe, never issues a
\* discovery request and leaves host as configured.
C10_LoginCalled(c) ==
    (calls[c].pc = "idle" /\ calls'[c].op = "login") =>
        /\ calls'[c].host0 = host'
        /\ IF host' = Undef \/ host' = Str(defaultHost)
           THEN calls'[c].reqs = <<discoveryPath>>
           ELSE calls'[c].reqs = <<gatewayPath>>
C10_LoginRunning(c) ==
    calls[c].op = "login" =>
        /\ \A i \in 2..Len(calls[c].reqs) : calls[c].reqs[i] # discoveryPath
        /\ calls[c].host0 \notin {Undef, Str(defaultHost)} =>
              host = calls[c].host0 /\ ~InSeq(discoveryPath, calls[c].reqs)
\* C10: discovery is login's first request exactly when host, after the
\* options, is unset or the rendezvous host; an explicit host is kept and
\* never looked up.
C10_DiscoveryIffNoExplicitHost ==
    /\ [][\A c \in Callers : C10_LoginCalled(c)]_vars
    /\ [](\A c \in Callers : C10_LoginRunning(c))

\* a login without a host option on a session whose host an earlier discovery
\* left unset has looked the device up first and then probed it
C10_Witness ==
    \E c \in Callers :
        /\ calls[c].op = "login" /\ calls[c].host0 = Undef
        /\ calls[c].reqs = <<discoveryPath, gatewayPath>> /\ host = Str(LanIp)
(* ---------------- C11 ---------------- *)
\* how the discovery lookup of caller c (called directly or by login) settles
C11_DiscoverStep(c) ==
    Receives(c, "discover") =>
        LET r == calls'[c].got IN
        /\ (r.kind = "reply" /\ r.statusCode = 404) => Rejected(calls'[c], ErrDiscoveryId)
        /\ (r.kind = "reply" /\ r.statusCode \notin {200, 404}) =>
              Rejected(calls'[c], ErrDiscoveryStatus)
        /\ calls'[c].res = "rejected" => host' = host
        /\ RefDiscoverError(r) # Undef => calls'[c].res = "rejected"
        /\ RefDiscoverError(r) = Undef => host' = r.body.ip

\* C11: discover() rejects with the 'incorrect ID' error on a 404 answer and
\* with a different, status-code error on any other non-200 answer; every
\* failure leaves host unchanged, and host is overwritten only from a 200
\* application/json answer that parsed.
C11_DiscoverErrors ==
    [][\A c \in Callers : C11_DiscoverStep(c)]_vars

\* a discover() answered 404 has been rejected with the 'incorrect ID' error
\* and the explicit host is still configured
C11_Witness ==
    \E c \in Callers :
        /\ calls[c].op = "discover" /\ Rejected(calls[c], ErrDiscoveryId)
        /\ calls[c].got.statusCode = 404 /\ host = Str(ExplicitHost)

(* ---------------- C12 ---------------- *)
\* the extractor has been applied and has returned a record
Returned == output # Undef /\ output.res = "resolved"
\* what the same response gives with the reversed flag unset
C12_Unreversed ==
    IF input.method = 1 THEN getMeterReadings1(input.response, FALSE)
    ELSE getMeterReadings2(input.response, FALSE)
C12_Swapped == {"p1", "p2", "n1", "n2"}
\* the tariff that record r files under counter k is the one the response gives
\* for it: the capture of the expression (strategy A), the measurement carrying
\* the tariff attribute in the log of that type (strategy B)
C12_FiledUnder(r, k, regex, type, tariff) ==
    IF input.method = 1
    THEN k \in DOMAIN r => r[k] = DivBy1000(ToNum(input.response[regex]))
    ELSE \A i \in 1..Len(input.response.cumulative_log.items) :
            LET log == input.response.cumulative_log.items[i] IN
            log.type = type =>
                \A j \in 1..Len(log.measurement.items) :
                    LET m == log.measurement.items[j] IN
                    (m.attributes.tariff_indicator = tariff \/ m.attributes.tariff = tariff)
                        => r[k] = DivBy1000(ToNum(m.text))

\* C12: the record returned with the reversed flag set is the record returned
\* with the flag unset with the values of p1 and p2 exchanged and the values of
\* n1 and n2 exchanged, every other field being there with the same value in
\* both; with the flag unset p1, p2, n1, n2 hold the off-peak consumed, peak
\* consumed, off-peak produced and peak produced counters of the response.
C12_ReversedSwapsOnly ==
    output # Undef =>
        /\ output.res = C12_Unreversed.res
        /\ output.res = "rejected" => output.val = C12_Unreversed.val
        /\ output.res = "resolved" =>
            LET r == output.val
                u == C12_Unreversed.val
            IN  /\ DOMAIN r \ C12_Swapped = DOMAIN u \ C12_Swapped
                /\ \A k \in DOMAIN r \ C12_Swapped : r[k] = u[k]
                /\ input.reversed =>
                    /\ Field(r, "p1") = Field(u, "p2") /\ Field(r, "p2") = Field(u, "p1")
                    /\ Field(r, "n1") = Field(u, "n2") /\ Field(r, "n2") = Field(u, "n1")
                /\ ~input.reversed =>
                    /\ C12_FiledUnder(r, "p1", "regexPowerOffpeak", "electricity_consumed", "nl_offpeak")
                    /\ C12_FiledUnder(r, "p2", "regexPowerPeak", "electricity_consumed", "nl_peak")
                    /\ C12_FiledUnder(r, "n1", "regexPowerOffpeakProduced", "electricity_produced", "nl_offpeak")
                    /\ C12_FiledUnder(r, "n2", "regexPowerPeakProduced", "electricity_produced", "nl_peak")

\* a reversed record: the peak counters sit in p1 and n1, gas is untouched
C12_Witness ==
    /\ Returned /\ input.reversed
    /\ Field(output.val, "p1") = Dec(7173526, 3) /\ Field(output.val, "p2") = Dec(10694674, 3)
    /\ Field(output.val, "n1") = Dec(2979339, 3) /\ Field(output.val, "n2") = Dec(1100755, 3)
    /\ Field(output.val, "gas") = Dec(1234567, 3)

(* ---------------- C13 ---------------- *)
\* the instantaneous power of one direction as the response reports it: the
\* capture of the expression (strategy A), the measurements of the point log of
\* that type added up (strategy B); Undef when strategy B finds no such log
RECURSIVE C13_Total(_)
C13_Total(ms) == IF ms = <<>> THEN Dec(0, 0) ELSE Add(ToNum(Head(ms).text), C13_Total(Tail(ms)))
C13_PointPower(regex, type) ==
    IF input.method = 1 THEN ToNum(input.response[regex])
    ELSE LET logs == SelectSeq(input.response.point_log.items, LAMBDA l : l.type = type) IN
         IF logs = <<>> THEN Undef ELSE C13_Total(logs[Len(logs)].measurement.items)
\* the Wh counter an expression of strategy A captures, in kWh
C13_Counter(regex) == DivBy1000(NumberOfString(input.response[regex].v))
C13_Sample ==
    /\ input.method = 1 /\ ~input.reversed
    /\ input.response.regexPowerPeak = Str(<<"7","1","7","3","5","2","6">>)
    /\ input.response.regexPowerOffpeak = Str(<<"1","0","6","9","4","6","7","4">>)
    /\ input.response.regexPowerPeakProduced = Str(<<"2","9","7","9","3","3","9">>)
    /\ input.response.regexPowerOffpeakProduced = Str(<<"1","1","0","0","7","5","5">>)
    /\ input.response.regexMeasurePower = Str(<<"1","1","3","0">>)
    /\ input.response.regexMeasurePowerProduced = Str(<<"0">>)

C14_PowerFields == {"pwr", "net", "p1", "p2", "n1", "n2", "tm"}
\* the response carries the whole power signal / the whole gas signal
C14_PowerSignal == \A x \in PowerRegexes : input.response[x] # Undef
C14_GasSignal == \A x \in GasRegexes : input.response[x] # Undef
\* a timestamp was extracted: the group was read and its log_date is a date
C14_IsDate(x) == x.t = "string" /\ x.v \in {DatePower, DateGas}
C14_PowerTm == C14_PowerSignal /\ C14_IsDate(input.response.regexPowerTm)
C14_GasTm == C14_GasSignal /\ C14_IsDate(input.response.regexGasTm)

\* C14: strategy A reads the power group and the gas group independently of
\* each other: the power fields pwr, net, p1, p2, n1, n2, tm are all set when
\* the power signal is there and none of them otherwise, gas and gtm are set
\* exactly when the gas signal is there, and the call rejects with the parse
\* error exactly when neither a power nor a gas timestamp was extracted.
C14_GroupsIndependent ==
    (input.method = 1 /\ output # Undef) =>
        /\ output.res = "rejected" <=> (~C14_PowerTm /\ ~C14_GasTm)
        /\ output.res = "rejected" => output.val = ErrMeterInfo
        /\ output.res = "resolved" =>
            LET r == output.val IN
            /\ C14_PowerSignal => \A k \in C14_PowerFields : Field(r, k) # Undef
            /\ ~C14_PowerSignal => \A k \in C14_PowerFields : Field(r, k) = Undef
            /\ C14_GasSignal =>
                /\ Field(r, "gas") = NumberOfString(input.response.regexGas.v)
                /\ Field(r, "gtm") # Undef
            /\ ~C14_GasSignal => "gas" \notin DOMAIN r /\ "gtm" \notin DOMAIN r

\* a response whose power signal is incomplete and whose gas signal is whole
\* yields gas and gtm and no power field
C14_Witness ==
    /\ Returned /\ input.method = 1 /\ ~input.reversed
    /\ input.response.regexMeasurePower # Undef /\ input.response.regexPowerTm # Undef
    /\ ~C14_PowerSignal
    /\ DOMAIN output.val = {"gas", "gtm"}

(* ---------------- C15 ---------------- *)
\* the response has an entry of one of the types: the whole group of captures
\* (strategy A), a cumulative log of the type (strategy B)
C15_HasEntry(regexes, types) ==
    IF input.method = 1 THEN \A x \in regexes : input.response[x] # Undef
    ELSE \E i \in 1..Len(input.response.cumulative_log.items) :
            input.response.cumulative_log.items[i].type \in types

\* C15: in a returned record a field the strategy could not populate from the
\* response is absent: gas and gtm when the response has no gas entry, the energy
\* counters p1, p2, n1, n2 and net when it has no electricity entry.
C15_UnpopulatedAbsent ==
    Returned =>
        /\ ~C15_HasEntry(GasRegexes, {"gas_consumed"}) =>
              \A k \in {"gas", "gtm"} : Field(output.val, k) = Undef
        /\ ~C15_HasEntry(PowerRegexes, {"electricity_consumed", "electricity_produced"}) =>
              \A k \in {"p1", "p2", "n1", "n2", "net"} : Field(output.val, k) = Undef

(* ---------------- C16 ---------------- *)
C16_Phases == {[i |-> "i1", name |-> "one"], [i |-> "i2", name |-> "two"], [i |-> "i3", name |-> "three"]}
\* the value the response reports in its point log of a type, Undef when it has none
C16_Reported(type) ==
    LET logs == SelectSeq(input.response.point_log.items, LAMBDA l : l.type = type) IN
    IF logs = <<>> THEN Undef ELSE logs[Len(logs)].measurement.items[1].text
\* x is (c - p) / v rounded to 2 decimals: x = q / 100 with q <= 100 (c - p) / v + 1/2 < q + 1
C16_IsRounded(x, c, p, v) ==
    LET e == MaxOf(MaxOf(c.e, p.e), v.e)
        l == Scaled(c, e) - Scaled(p, e)
        d == Scaled(v, e)
        q == Scaled(x, 2)
    IN  /\ x.t = "number" /\ ~x.nan /\ x.e <= 2
        /\ 2 * q * d <= 200 * l + d
        /\ 200 * l + d < 2 * q * d + 2 * d

\* C16: in a record of strategy B, for each phase k, i_k is (consumed power -
\* produced power) / voltage of the phase rounded to 2 decimals when the response
\* reports a voltage for the phase, and i_k is absent when it reports none.
C16_PhaseCurrent ==
    (Returned /\ input.method = 2) =>
        \A ph \in C16_Phases :
            LET v == C16_Reported("voltage_phase_" \o ph.name)
                c == C16_Reported("electricity_phase_" \o ph.name \o "_consumed")
                p == C16_Reported("electricity_phase_" \o ph.name \o "_produced")
            IN  /\ (v # Undef /\ c # Undef /\ p # Undef) =>
                      C16_IsRounded(Field(output.val, ph.i), c, p, v)
                /\ v = Undef => Field(output.val, ph.i) = Undef

(* ---------------- C17 ---------------- *)
\* the caller of flatten has received the record
Flattened == output # Undef /\ output.resumed
\* the child under key of a node of the tree is one flatten recurses into
C17_Expandable(json, key) ==
    /\ \E i \in 1..Len(Keys(json)) : Keys(json)[i] = key
    /\ key # "_attributes"
    /\ LET child == Get(json, key) IN
       Len(Keys(child)) > 1 \/ (Len(Keys(child)) = 1 /\ ~HasOwnText(child))
\* v is the record made of json at nesting level lvl: records are nested no
\* deeper than MaxLevel, and what a record of that level holds for a child to
\* recurse into is the child itself
RECURSIVE C17_Bounded(_, _, _)
C17_Bounded(v, json, lvl) ==
    v.t = "flat" =>
        /\ lvl <= MaxLevel
        /\ \A k \in DOMAIN v.v :
              IF lvl = MaxLevel
              THEN /\ v.v[k].t # "flat"
                   /\ C17_Expandable(json, k) => v.v[k] = Get(json, k)
              ELSE v.v[k].t = "flat" => C17_Bounded(v.v[k], Get(json, k), lvl + 1)
\* the value n steps down the chain of a record
RECURSIVE C17_Down(_, _)
C17_Down(v, n) == IF n = 0 THEN v ELSE C17_Down(v.v["e"], n - 1)

\* C17: once called, flatten comes back for every tree, and the record it gives
\* is nested no more than 10 levels: a subtree lying below that level is in the
\* record as it is in the input.
C17_TerminatesWithinDepth ==
    /\ (output # Undef) ~> Flattened
    /\ [](Flattened => C17_Bounded(output.result, input, 1))

\* the tree nested 12 deep: ten records, the innermost holding the input's subtree
C17_Witness ==
    /\ Flattened /\ input = Chain(12)
    /\ C17_Down(output.result, MaxLevel) = Chain(2)

(* ---------------- C18 ---------------- *)
\* the trees of the model that a parser produces and that lie within the depth bound
C18_Parsed == input \in ParsedTrees \cup {Chain(n) : n \in 1..MaxLevel}
\* the reference: the record of a node, its keys taken in order
\*   _attributes      : each attribute becomes a key of the record
\*   _text            : the field value holds the text
\*   empty container  : a field with no value
\*   only _text       : the text
\*   any other child  : the record of the child
RECURSIVE C18_Reference(_)
RECURSIVE C18_Fields(_, _, _)
RECURSIVE C18_Attributes(_, _, _)
C18_Attributes(attributes, attrs, r) ==
    IF attrs = <<>> THEN r
    ELSE C18_Attributes(attributes, Tail(attrs), Assign(r, Head(attrs), Get(attributes, Head(attrs))))
C18_Fields(json, keys, r) ==
    IF keys = <<>> THEN r
    ELSE LET key == Head(keys)
             child == Get(json, key)
         IN  C18_Fields(json, Tail(keys),
                CASE key = "_attributes" -> C18_Attributes(child, Keys(child), r)
                  [] key = "_text" -> Assign(r, "value", child)
                  [] child.t \in {"object", "array"} /\ Keys(child) = <<>> -> Assign(r, key, Undef)
                  [] Keys(child) = <<"_text">> -> Assign(r, key, Get(child, "_text"))
                  [] OTHER -> Assign(r, key, C18_Reference(child)))
C18_Reference(json) == [t |-> "flat", v |-> C18_Fields(json, Keys(json), NoReadings)]

\* C18: for a parsed tree within the depth bound the record the caller of
\* flatten receives is the one the reference definition gives.
C18_MatchesReference ==
    (Flattened /\ C18_Parsed) => output.result = C18_Reference(input)

(* ---------------- C19 ---------------- *)
\* what the caller of flatten(json) receives
RECURSIVE C19_Drained(_)
C19_Drained(st) == IF st.queue = <<>> THEN st ELSE C19_Drained(runJob(st))
C19_Result(json) == C19_Drained(flattenSync(json, 0, <<>>, NoRun)).result
\* the same object with its keys in the opposite order
C19_Reordered(json) == Obj([i \in 1..Len(json.v) |-> json.v[Len(json.v) + 1 - i]])

\* C19: flatten leaves its argument as it is; the record it gives is the same
\* whatever the order of the keys of the argument; applied to a flat record of
\* leaf values it gives a record with the same keys and the same values.
C19_PureIdempotent ==
    /\ [][input' = input]_vars
    /\ [](Flattened =>
            /\ output.result = C19_Result(C19_Reordered(input))
            /\ input \in FlatRecords =>
                  /\ DOMAIN output.result.v = {input.v[i].k : i \in 1..Len(input.v)}
                  /\ \A k \in DOMAIN output.result.v : output.result.v[k] = Get(input, k))

(* ---------------- C20 ---------------- *)
\* the value a setting holds, as an option would give it
C20_Setting(settings, key) ==
    IF key = "reversed" THEN Bool(settings.reversed) ELSE settings[key]

\* C20: after login(options) every setting whose option is present holds the
\* option's value and every other setting holds the value it had.
C20_LoginOverrides ==
    output # Undef =>
        \A key \in SettingKeys :
            C20_Setting(output, key) =
                IF HasOwn(input.options, key) THEN input.options[key]
                ELSE C20_Setting(input.this, key)

(* ---------------- C21 ---------------- *)
\* the positions at which an operation waits for a transport call
TransportPcs == {"discover", "fw3", "fw2", "statusV2", "statusV3", "interfaceStatus",
                 "wifiScan", "logs", "readings1", "readings2", "reboot"}
\* the transport call caller c's operation waits for comes back in this step
C21_Answered(c) == calls[c].pc \in TransportPcs /\ calls'[c] # calls[c]
\* a network error, a timeout or a reply cut short
C21_NetworkError(r) ==
    CASE r.kind = "error" -> ErrTransport
      [] r.kind = "incomplete" -> ErrTerminated
      [] OTHER -> Undef
\* the failure of the transport call that came back with r while the operation
\* waited at pc, Undef when the call did not fail; for reboot, whose answer
\* has no expected content type, a non-200 status is the 'reboot failed' case
C21_Failure(pc, r) ==
    CASE pc = "discover" -> RefDiscoverError(r)
      [] pc = "reboot" ->
            IF r.kind = "reply" THEN (IF r.statusCode # 200 THEN ErrRebootFailed ELSE Undef)
            ELSE C21_NetworkError(r)
      [] OTHER -> RefRequestError(r)
\* no transport call was issued twice by the operation
C21_NoneReissued(k) ==
    \A i, j \in 1..Len(k.reqs) : i # j => k.reqs[i] # k.reqs[j]

\* C21 as claimed: when a transport call of any operation fails (network
\* error, timeout, non-200 status, wrong content type), the operation rejects
\* with the failure and issues no further transport call.
C21_EveryFailureRejects ==
    [][\A c \in Callers : C21_Answered(c) =>
          LET e == C21_Failure(calls[c].pc, calls'[c].got) IN
          e # Undef => Rejected(calls'[c], e) /\ calls'[c].reqs = calls[c].reqs]_vars

\* C21 amended: no operation issues a transport call twice, and every
\* operation but reboot rejects with the failure of a failed transport call
\* and issues no further call; reboot issues its one call, rejects with a
\* network error, and otherwise does not look at the status: it resolves when
\* the headers carry the vendor marker and rejects with 'reboot failed' when
\* they do not.
C21_NoRetry ==
    /\ [](\A c \in Callers : C21_NoneReissued(calls[c]))
    /\ [][\A c \in Callers : C21_Answered(c) =>
            IF calls[c].pc = "reboot"
            THEN LET r == calls'[c].got IN
                 /\ calls'[c].pc = "done" /\ calls'[c].reqs = calls[c].reqs
                 /\ C21_NetworkError(r) # Undef => Rejected(calls'[c], C21_NetworkError(r))
                 /\ (r.kind = "reply" /\ ~r.vendor) => Rejected(calls'[c], ErrRebootFailed)
                 /\ (r.kind = "reply" /\ r.vendor) => Resolved(calls'[c], Bool(TRUE))
            ELSE LET e == C21_Failure(calls[c].pc, calls'[c].got) IN
                 e # Undef => Rejected(calls'[c], e) /\ calls'[c].reqs = calls[c].reqs]_vars

\* the detection run by getMeterReadings got a tagless answer to its first
\* probe and status 500 to its second: the call is rejected with the status
\* error after those two requests
C21_Witness ==
    \E c \in Callers :
        /\ calls[c].op = "getMeterReadings" /\ Rejected(calls[c], ErrStatus)
        /\ calls[c].got.statusCode = 500
        /\ calls[c].reqs = <<gatewayPath, statusPath>>

RequestPcs == TransportPcs \ {"discover", "reboot"}
\* the errors _makeRequest throws on a completed call
C23_RequestErrors == {Err401, ErrStatus, ErrContentType}
\* how the step in which a completed call comes back classifies it
C23_Classified(c) ==
    LET r == calls'[c].got
        k == calls'[c] IN
    CASE r.statusCode = 401 ->
            Rejected(k, Err401) /\ lastResponse' = Num(401)
      [] r.statusCode \notin {200, 401} ->
            Rejected(k, ErrStatus) /\ lastResponse' = Num(r.statusCode)
      [] r.statusCode = 200 /\ r.contentType # "text/xml" ->
            Rejected(k, ErrContentType) /\ lastResponse' = Body(r.body)
      [] OTHER ->
            /\ ~(k.pc = "done" /\ k.res = "rejected" /\ k.val \in C23_RequestErrors)
            /\ lastResponse' = Body(r.body)

\* C23: a completed call made through _makeRequest is classified in the order
\* 401, other non-200 status, content type not text, success; lastResponse is
\* then the status code after a status failure and the body after a
\* content-type failure or a success.
C23_ClassificationOrder ==
    [][\A c \in Callers :
          (calls[c].pc \in RequestPcs /\ calls'[c] # calls[c] /\ calls'[c].got.kind = "reply")
              => C23_Classified(c)]_vars

\* a getLogs request answered with status 500 and no text content type was
\* rejected with the status error, and lastResponse is the status code
C23_Witness ==
    \E c \in Callers :
        /\ calls[c].op = "getLogs" /\ Rejected(calls[c], ErrStatus)
        /\ calls[c].got.statusCode = 500 /\ calls[c].got.contentType = "none"
        /\ lastResponse = Num(500)

(* ---------------- C24 ---------------- *)
\* the measurement carries the tariff, under either attribute name
C24_Carries(m, tariff) ==
    m.attributes.tariff_indicator = tariff \/ m.attributes.tariff = tariff
\* the cumulative electricity logs of the response
C24_ElectricityLogs ==
    SelectSeq(input.response.cumulative_log.items,
              LAMBDA l : l.type \in {"electricity_consumed", "electricity_produced"})
\* the log holds one measurement per tariff, in either order
C24_Split(log) ==
    /\ log.measurement.array
    /\ \E i, j \in 1..Len(log.measurement.items) :
          /\ C24_Carries(log.measurement.items[i], "nl_offpeak")
          /\ C24_Carries(log.measurement.items[j], "nl_peak")
\* the counter of that tariff in the log, in kWh
C24_Value(log, tariff) ==
    LET i == CHOOSE i \in 1..Len(log.measurement.items) :
                C24_Carries(log.measurement.items[i], tariff)
    IN  DivBy1000(log.measurement.items[i].text)
\* the response is one strategy B can read: its logs come as collections and
\* every cumulative electricity log is split by tariff
C24_Readable ==
    /\ input.method = 2
    /\ input.response.cumulative_log.array /\ input.response.point_log.array
    /\ \A i \in 1..Len(C24_ElectricityLogs) : C24_Split(C24_ElectricityLogs[i])

\* C24: strategy B reads the off-peak and the peak counter of a cumulative
\* electricity log by the tariff attribute of the measurement, under the name
\* tariff_indicator or tariff, whatever the order of the two measurements:
\* p1/n1 hold the nl_offpeak counter and p2/n2 the nl_peak counter (the other
\* way round on a reversed session).
C24_SelectedByTariff ==
    (output # Undef /\ C24_Readable) =>
        /\ output.res = "resolved"
        /\ \A i \in 1..Len(C24_ElectricityLogs) :
              LET log == C24_ElectricityLogs[i]
                  consumed == log.type = "electricity_consumed"
                  offpeak == IF consumed THEN "p1" ELSE "n1"
                  peak == IF consumed THEN "p2" ELSE "n2"
              IN  /\ output.val[IF input.reversed THEN peak ELSE offpeak] = C24_Value(log, "nl_offpeak")
                  /\ output.val[IF input.reversed THEN offpeak ELSE peak] = C24_Value(log, "nl_peak")

\* a response whose consumed log lists the peak measurement first, under the
\* name tariff, and whose produced log lists the off-peak measurement first,
\* under the name tariff_indicator, was read on a session that is not reversed
C24_Witness ==
    /\ Returned /\ C24_Readable /\ ~input.reversed
    /\ \E i, j \in 1..Len(C24_ElectricityLogs) :
          /\ C24_ElectricityLogs[i].type = "electricity_consumed"
          /\ C24_ElectricityLogs[i].measurement.items[1].attributes.tariff = "nl_peak"
          /\ C24_ElectricityLogs[j].type = "electricity_produced"
          /\ C24_ElectricityLogs[j].measurement.items[1].attributes.tariff_indicator = "nl_offpeak"
    /\ output.val.p1 = Dec(10694674, 3) /\ output.val.p2 = Dec(7173526, 3)
    /\ output.val.n1 = Dec(1100755, 3) /\ output.val.n2 = Dec(2979339, 3)

(* ---------------- C25 ---------------- *)
\* a node of the parsed tree that carries _attributes or _text, or holds one that does
RECURSIVE C25_CarriesRaw(_)
C25_CarriesRaw(v) ==
    /\ v.t \in {"object", "array"}
    /\ \/ \E i \in 1..Len(Keys(v)) : Keys(v)[i] \in {"_attributes", "_text"}
       \/ \E i \in 1..Len(Keys(v)) : C25_CarriesRaw(Get(v, Keys(v)[i]))
\* the record v holds such a node of the parsed tree somewhere
RECURSIVE C25_ObservesRaw(_)
C25_ObservesRaw(v) ==
    IF v.t = "flat" THEN \E k \in DOMAIN v.v : C25_ObservesRaw(v.v[k])
    ELSE C25_CarriesRaw(v)
\* the record v made at nesting level lvl holds, above the depth bound, no
\* node of the parsed tree in place of a record
RECURSIVE C25_Replaced(_, _)
C25_Replaced(v, lvl) ==
    v.t = "flat" =>
        \A k \in DOMAIN v.v :
            /\ lvl < MaxLevel => v.v[k].t \notin {"object", "array"}
            /\ C25_Replaced(v.v[k], lvl + 1)
\* no nested call is pending: the queue is empty and the record of every
\* nested call is held by the record of the call that made it
C25_NonePending ==
    /\ output.queue = <<>>
    /\ \A id \in DOMAIN output.flats :
          id # <<>> => output.flats[Front(id)][id[Len(id)]] = FlatRef(id)

\* C25 as claimed: when the caller of flatten resumes no nested call is
\* pending, and the record it receives holds no node of the parsed tree that
\* still carries _attributes or _text.
C25_NoRawNodeObserved ==
    Flattened => C25_NonePending /\ ~C25_ObservesRaw(output.result)

\* C25 amended: when the caller of flatten resumes no nested call is pending,
\* and every subtree above the depth bound is in the record as the record its
\* nested call made; only a subtree below the depth bound is held as the
\* parsed tree gave it.
C25_NestedCallsCompleted ==
    Flattened => C25_NonePending /\ C25_Replaced(output.result, 1)

\* the caller received the record of an element with two levels of children
\* below it, the innermost flattened to its attributes and its value
C25_Witness ==
    /\ Flattened /\ input = ElementChildren
    /\ output.result.v["period"].t = "flat"
    /\ output.result.v["period"].v["measurement"].t = "flat"
    /\ output.result.v["period"].v["measurement"].v["value"] = Num(1130)

(* ---------------- C26 ---------------- *)
\* C26: once meterMethod has a value, no step of any operation changes it,
\* however the login, getFirmwareLevel, getStatus, getMeterReadings and reboot
\* calls of two callers overlap and whatever the device answers to each probe.
C26_MeterMethodStable ==
    [][meterMethod # Undef => meterMethod' = meterMethod]_vars

(* ---------------- C27 ---------------- *)
\* the step in which the second probe of a detection comes back as a 200 text
\* answer without a version tag, the first having yielded no tag either
C27_NoTagFound(c) ==
    /\ calls[c].op \in DetectingOps
    /\ Receives(c, "fw2")
    /\ RefRequestError(calls'[c].got) = Undef
    /\ calls'[c].got.body.version = Undef

\* C27: a detection in which neither probe yields a version tag leaves
\* firmwareLevel as it was; getFirmwareLevel resolves with that value, and the
\* strategy getMeterReadings selects after it is the one of the version
\* detected earlier (2.1.13 gives 1, 3.3.6 gives 2, none leaves it unset).
C27_KeepsEarlierVersion ==
    [][\A c \in Callers : C27_NoTagFound(c) =>
          /\ firmwareLevel' = firmwareLevel
          /\ calls[c].op = "getFirmwareLevel" => Resolved(calls'[c], firmwareLevel)
          /\ calls[c].op = "getMeterReadings" =>
                /\ firmwareLevel = Str(Fw2) => meterMethod' = Num(1)
                /\ firmwareLevel = Str(Fw3) => meterMethod' = Num(2)
                /\ firmwareLevel = Undef => meterMethod' = meterMethod]_vars

\* 2.1.13 was detected earlier; the detection run by getMeterReadings found no
\* tag in either probe, and the strategy-A readings request is in flight
C27_Witness ==
    \E c \in Callers :
        /\ calls[c].op = "getMeterReadings" /\ calls[c].pc = "readings1"
        /\ calls[c].reqs = <<gatewayPath, statusPath, modulesPath>>
        /\ calls[c].got.body.version = Undef /\ calls[c].got.body.firmware_version = Undef
        /\ firmwareLevel = Str(Fw2) /\ meterMethod = Num(1)

(* ---------------- C28 ---------------- *)
\* C28: a getStatus called while firmwareLevel holds a detected string issues
\* the newer-generation gateway status request exactly when the detection of
\* getMeterReadings selects strategy B from that string, and takes the
\* older-generation request exactly when it selects strategy A.
C28_GenerationsAgree ==
    [][\A c \in Callers :
          (calls[c].pc = "idle" /\ calls'[c].op = "getStatus" /\ firmwareLevel.t = "string") =>
              LET selected == getMeterMethod(firmwareLevel, Undef) IN
              /\ calls'[c].pc = "statusV3" <=> selected = Num(2)
              /\ calls'[c].reqs = <<gatewayPath>> <=> selected = Num(2)
              /\ selected \in {Num(1), Num(2)}]_vars

(* ---------------- C29 ---------------- *)
\* C29: whenever a login() has resolved, firmwareLevel holds a version string:
\* the session is not left logged in with firmwareLevel unset.
C29_LoginDetectsVersion ==
    [][\A c \in Callers :
          (Settles(c) /\ calls'[c].op = "login" /\ calls'[c].res = "resolved") =>
              loggedIn' /\ firmwareLevel'.t = "string"]_vars

(* ---------------- C30 ---------------- *)
\* C30: after an accepted reboot loggedIn is false until a login called after
\* that reboot resolves; a login already in flight when the reboot was
\* accepted does not set it.
C30_StaleLoginKeepsLoggedOut ==
    rebooted.on => ~loggedIn
====
